---- MODULE Spec2Model ----
(***************************************************************************)
(* Client-side polling / data-refresh behaviour of the onboarding analyzer *)
(* front end: App.fetchData with its mount effect, its real-time polling   *)
(* effect and its render function (src/frontend/src/App.jsx), and          *)
(* AnalyticsDashboard.fetchFunnelData with its polling effect and          *)
(* AIAgentDashboard.triggerAIAnalysis with its auto-analysis effect (both  *)
(* embedded in src/scripts/deploy-production.sh).                          *)
(*                                                                         *)
(* Each React component keeps its own state; a behaviour follows one       *)
(* component instance, chosen by `component` in the initial state.         *)
(*                                                                         *)
(* JavaScript runs the component on one event-loop thread: every action    *)
(* below is one macrotask/continuation (an event handler together with the *)
(* effects React flushes for it, or the continuation of an async function  *)
(* from one state-changing await to the next).  The backend is the         *)
(* environment: what it answers is drawn from small sets.                  *)
(***************************************************************************)
EXTENDS Integers, Sequences, FiniteSets, Bags, TLC

\* ------------------------------------------------------------------ bounds
\* fetchData invocations dispatched in one behaviour
MaxFetches == 3

\* ------------------------------------------------------------------ values
Null == "null"

\* JSON objects the /funnel/onboarding endpoint can answer with: two funnel
\* results that carry an analysis list, and an object that carries an error
\* field and no analysis.
JsonBodies == {"pA", "pB", "pErr"}

\* Bodies of a response: valid JSON, or text that response.json() rejects.
Bodies == JsonBodies \cup {"badjson"}

\* response.json(): the parsed value of a valid body
ParseJson(body) == body

\* funnelData && funnelData.analysis
HasAnalysis(data) == data \in {"pA", "pB"}

\* What fetch(`${apiUrl}/`) can produce: a rejected promise (transport
\* failure) or a response with a status and a body.  The health bodies are
\* invalid JSON and objects whose posthog_connection is truthy ("up") or
\* falsy/absent ("down").
HealthBodies == {"badjson", "up", "down"}

HealthResponses ==
    {[transport |-> FALSE, ok |-> FALSE, body |-> "none"]} \cup
    [transport : {TRUE}, ok : BOOLEAN, body : HealthBodies]

\* The body of a funnel response whose status is not OK is never read.
FunnelResponses ==
    {[transport |-> FALSE, ok |-> FALSE, body |-> "none"],
     [transport |-> TRUE, ok |-> FALSE, body |-> "unread"]} \cup
    [transport : {TRUE}, ok : {TRUE}, body : Bodies]

NoResponse == [transport |-> FALSE, ok |-> FALSE, body |-> "pending"]

\* What the /recommendations and /posthog/events requests can produce: the
\* bodies are invalid JSON, an object with the list field, an object without.
ListResponses ==
    {[transport |-> FALSE, ok |-> FALSE, body |-> "none"],
     [transport |-> TRUE, ok |-> FALSE, body |-> "unread"]} \cup
    [transport : {TRUE}, ok : {TRUE}, body : {"badjson", "withList", "noList"}]

\* result.recommendations || [] and result.event_types || []
ListOrEmpty(body) == IF body = "withList" THEN "list" ELSE "[]"

\* What the POST to /ai/analyze/onboarding can produce; its body is never read.
PostResponses ==
    {[transport |-> FALSE, ok |-> FALSE, body |-> "none"]} \cup
    [transport : {TRUE}, ok : BOOLEAN, body : {"unread"}]

\* What the GET of /ai/agents/status can produce.
StatusResponses ==
    {[transport |-> FALSE, ok |-> FALSE, body |-> "none"],
     [transport |-> TRUE, ok |-> FALSE, body |-> "unread"]} \cup
    [transport : {TRUE}, ok : {TRUE}, body : {"badjson", "status"}]

\* The six requests triggerAIAnalysis issues together, and what each can
\* come to: a transport failure, a status that is not OK, an invalid body,
\* an object that carries the collection under its field name ("wrapped"),
\* a JSON array ("bare"), an object without the field ("object").
Collections == {"insights", "predictions", "anomalies", "optimizations", "patterns"}
GetNames == Collections \cup {"collaboration"}
GetKinds == {"fail", "nonok", "badjson", "wrapped", "bare", "object"}

\* The answers to the six requests of one invocation: all of one kind, or
\* all "wrapped" but one.
GetScenarios ==
    {[n \in GetNames |-> k] : k \in GetKinds} \cup
    {[n \in GetNames |-> IF n = d THEN k ELSE "wrapped"] :
        d \in GetNames, k \in GetKinds \ {"wrapped"}}

\* fetchWithErrorHandling(url, defaultValue): the parsed body, or the default.
FetchWithErrorHandlingNoStatusTest(kind, defaultValue) ==
    IF kind \in {"fail", "badjson"} THEN defaultValue
    ELSE IF kind \in {"wrapped", "nonok"} THEN "wrapped object"
    ELSE IF kind = "bare" THEN "list"
    ELSE "object"

FetchWithErrorHandling(kind, defaultValue) ==
    IF kind \in {"fail", "nonok", "badjson"} THEN defaultValue
    ELSE IF kind = "wrapped" THEN "wrapped object"
    ELSE IF kind = "bare" THEN "list"
    ELSE "object"

\* data.<field> || data || []  (an empty array is truthy)
FieldOrSelf(data) == IF data = "wrapped object" THEN "list" ELSE data

Components ==
    {"App", "AnalyticsDashboard", "AIAgentDashboard", "AdvancedAnalyticsDashboard"}

\* error.message of the exceptions fetchData can catch
MsgTransport == "Failed to fetch"
MsgSyntax == "Unexpected token"
MsgHttp == "HTTP error! status"
Msgs == {MsgTransport, MsgSyntax, MsgHttp}

\* AdvancedAnalyticsDashboard: three of its five views, the key of
\* analyticsData each one is stored under, and what the backend answers.  A
\* body is not JSON, or a JSON object without an error field ("data"), or a
\* JSON object with one ("errBody").
AnalyticsViews == {"segments", "cohorts", "comprehensive"}
AnalyticsKey(viewType) ==
    IF viewType = "comprehensive" THEN "comprehensiveReport" ELSE viewType
AnalyticsKeys == {AnalyticsKey(v) : v \in AnalyticsViews}
AnalyticsResponses ==
    {[transport |-> FALSE, ok |-> FALSE, body |-> "none"]}
    \cup [transport : {TRUE}, ok : BOOLEAN, body : {"badjson", "data", "errBody"}]
MsgErrorField == "message of the error field"
MsgAnalyticsFailed == "Failed to fetch analytics data"
AadNoEvent ==
    [outcome |-> "none", viewType |-> "none",
     response |-> [transport |-> FALSE, ok |-> FALSE, body |-> "pending"]]

\* ------------------------------------------------------------------ state
VARIABLES
    funnelData,         \* useState(null)
    loading,            \* useState(true)
    error,              \* useState(null)
    lastUpdated,        \* useState(null); 0 stands for null
    isRealTime,         \* useState(false)
    connectionStatus,   \* useState('checking')
    mounted,            \* the mount effect has run
    timers,             \* number of live setInterval handles
    calls,              \* fetchData invocations in flight, by dispatch number
    nextId,             \* dispatch number of the next fetchData invocation
    clock,              \* the instant the next new Date() returns
    completed,          \* history: the finished invocations, in completion order
    last,               \* history: what the most recently finished invocation received
    component,          \* the component instance the behaviour follows
    unmounted,          \* the component instance has been removed from the tree
    \* AnalyticsDashboard
    adFunnelData,       \* useState(null)
    recommendations,    \* useState([])
    posthogEvents,      \* useState([])
    isLoading,          \* useState(true)
    adError,            \* useState(null)
    isRealTimeEnabled,  \* useState(false)
    adConnectionStatus, \* useState('connecting')
    adLastUpdated,      \* useState(new Date())
    adMounted,          \* the polling effect has run once
    adTimers,           \* number of live setInterval handles
    adCalls,            \* bag of the fetchFunnelData invocations in flight
    adNextId,           \* number of fetchFunnelData invocations dispatched, plus one
    adLast,             \* history: what the most recently finished invocation met
    \* AIAgentDashboard
    agentStatus,        \* useState({})
    aiData,             \* aiInsights, predictions, anomalies, optimizations, patterns
    collaborationReport,\* useState(null)
    aiLoading,          \* useState(false)
    aiError,            \* useState(null)
    autoAnalysis,       \* useState(false)
    aiMounted,          \* the mount effect has run
    aiTimers,           \* number of live setInterval handles
    aiStatusCall,       \* fetchAgentStatus is in flight
    aiRuns,             \* bag of the triggerAIAnalysis invocations in flight
    aiNextId,           \* number of triggerAIAnalysis invocations dispatched, plus one
    aiLast,             \* history: what the most recently finished invocation received
    \* AdvancedAnalyticsDashboard
    activeView,         \* useState('segments')
    analyticsData,      \* useState({segments: [], cohorts: [], ...})
    aadLoading,         \* useState(false)
    aadError,           \* useState(null)
    aadFunnelId,        \* the funnelData prop carries a funnel_id
    aadMounted,         \* the effect on activeView has run once
    aadCalls,           \* bag of the fetchAnalyticsData invocations in flight
    aadNextId,          \* number of fetchAnalyticsData invocations dispatched, plus one
    aadLast,            \* history: what the most recently finished invocation received
    \* the requests the components issue
    env,                \* process.env.REACT_APP_BACKEND_API_URL of the build
    requests,           \* history: the requests issued so far
    \* views of a fetched payload
    analysis,           \* the analysis array of the payload handed to the views
    shown,              \* what the view rendered (or the export produced) last
    \* deploy-production.sh, the deployment script
    dpc,                \* the function of main the script is about to run
    HEALTH_CHECK_TIMEOUT, \* ${HEALTH_CHECK_TIMEOUT:-300}, in seconds
    elapsed,            \* local elapsed of health_check
    probes,             \* history: the curl probes health_check has made
    hcReturn,           \* history: the return status of health_check
    dbFile,             \* backend/database.db exists
    backups,            \* the latest backups/20* directory, and its database.db.bak
    services,           \* what docker-compose is running
    database,           \* the content of backend/database.db
    notifications,      \* history: the statuses passed to send_notification
    rollbackRun,        \* history: how far rollback has run
    failedAt,           \* history: the validation that failed
    exitStatus,         \* the exit status of the script
    \* the comprehensive health-check script
    hpc,                \* the number of the check the script is about to run
    OVERALL_HEALTH,     \* OVERALL_HEALTH
    checkResults,       \* history: the outcome of every check
    dockerPresent,      \* command -v docker succeeds
    RESPONSE_TIME,      \* how the response time of the API was reported
    BACKEND_MEMORY,     \* whether the memory usage of the backend was reported
    healthExit          \* the exit status of the script

appVars == <<funnelData, loading, error, lastUpdated, isRealTime, connectionStatus,
             mounted, timers, calls, nextId, completed, last>>

adVars == <<adFunnelData, recommendations, posthogEvents, isLoading, adError,
            isRealTimeEnabled, adConnectionStatus, adLastUpdated, adMounted,
            adTimers, adCalls, adNextId, adLast>>

aiVars == <<agentStatus, aiData, collaborationReport, aiLoading, aiError,
            autoAnalysis, aiMounted, aiTimers, aiStatusCall, aiRuns, aiNextId, aiLast>>

aadVars == <<activeView, analyticsData, aadLoading, aadError, aadFunnelId, aadMounted,
             aadCalls, aadNextId, aadLast>>

urlVars == <<env, requests>>

viewVars == <<analysis, shown, urlVars>>

lifeVars == <<unmounted>>

deployVars == <<dpc, HEALTH_CHECK_TIMEOUT, elapsed, probes, hcReturn, dbFile, backups,
                services, database, notifications, rollbackRun, failedAt, exitStatus>>

healthVars == <<hpc, OVERALL_HEALTH, checkResults, dockerPresent, RESPONSE_TIME,
                BACKEND_MEMORY, healthExit>>

scriptVars == <<deployVars, healthVars>>

vars == <<appVars, adVars, aiVars, aadVars, clock, component, viewVars, lifeVars,
          scriptVars>>

\* A step of App leaves the other components alone, and conversely.
AppStep ==
    /\ component = "App"
    /\ UNCHANGED <<component, adVars, aiVars, aadVars, viewVars, lifeVars, scriptVars>>
AdStep ==
    /\ component = "AnalyticsDashboard"
    /\ UNCHANGED <<component, appVars, aiVars, aadVars, viewVars, lifeVars, scriptVars>>
AiStep ==
    /\ component = "AIAgentDashboard"
    /\ UNCHANGED <<component, appVars, adVars, aadVars, clock, viewVars, lifeVars, scriptVars>>
AadStep ==
    /\ component = "AdvancedAnalyticsDashboard"
    /\ UNCHANGED <<component, appVars, adVars, aiVars, clock, viewVars, lifeVars, scriptVars>>

\* before: every collection held a non-empty list when the setters ran.
AiNoEvent == [outcome |-> "none", post |-> NoResponse, gets |-> "none", before |-> FALSE]

\* What an invocation of fetchFunnelData has met so far: a request whose
\* transport failed, a funnel response that is not OK, a body it parsed that
\* is not valid JSON.
NothingMet == [transportFailed |-> FALSE, funnelNonOk |-> FALSE, badBody |-> FALSE]

AdNoEvent == [outcome |-> "none", met |-> NothingMet]

NoEvent ==
    [id |-> 0, src |-> "none", polling |-> FALSE, outcome |-> "none",
     health |-> NoResponse, funnel |-> NoResponse]

\* process.env.REACT_APP_BACKEND_API_URL when the build does not set it
Unset == "undefined"

\* Nothing has been rendered from a payload yet.
NotRendered == [view |-> "none"]

\* seconds health_check sleeps between two probes (local interval=5)
Interval == 5

\* No backup directory exists.
NoBackup == [dir |-> FALSE, db |-> FALSE]

\* The deployment script has not been started.
DeployIdle ==
    /\ dpc = "not started"
    /\ HEALTH_CHECK_TIMEOUT = 2 * Interval
    /\ elapsed = 0
    /\ probes = 0
    /\ hcReturn = "none"
    /\ dbFile = FALSE
    /\ backups = NoBackup
    /\ services = "previous"
    /\ database = "live"
    /\ notifications = << >>
    /\ rollbackRun = "none"
    /\ failedAt = "none"
    /\ exitStatus = "running"

\* The checks of the health-check script in the order of the script
\* (lines 349-408), each with its third argument; docker marks the checks
\* inside `if command -v docker`.
Checks ==
    << [name |-> "Frontend availability", critical |-> TRUE, docker |-> FALSE],
       [name |-> "Frontend health endpoint", critical |-> FALSE, docker |-> FALSE],
       [name |-> "API availability", critical |-> TRUE, docker |-> FALSE],
       [name |-> "API health endpoint", critical |-> TRUE, docker |-> FALSE],
       [name |-> "PostHog events endpoint", critical |-> FALSE, docker |-> FALSE],
       [name |-> "Funnel data endpoint", critical |-> TRUE, docker |-> FALSE],
       [name |-> "User segmentation", critical |-> FALSE, docker |-> FALSE],
       [name |-> "Cohort analysis", critical |-> FALSE, docker |-> FALSE],
       [name |-> "ML insights", critical |-> FALSE, docker |-> FALSE],
       [name |-> "AI agents status", critical |-> FALSE, docker |-> FALSE],
       [name |-> "Recommendations", critical |-> FALSE, docker |-> FALSE],
       [name |-> "Redis container", critical |-> TRUE, docker |-> TRUE],
       [name |-> "Backend container", critical |-> TRUE, docker |-> TRUE],
       [name |-> "Frontend container", critical |-> TRUE, docker |-> TRUE],
       [name |-> "Celery worker", critical |-> FALSE, docker |-> TRUE],
       [name |-> "Celery beat", critical |-> FALSE, docker |-> TRUE],
       [name |-> "Database read test", critical |-> TRUE, docker |-> FALSE],
       [name |-> "HTTPS redirect", critical |-> FALSE, docker |-> FALSE],
       [name |-> "Security headers", critical |-> FALSE, docker |-> FALSE] >>

\* The check that follows the performance metrics section.
FirstAfterMetrics == 17

\* The health-check script has not been started.
HealthIdle ==
    /\ hpc = 1
    /\ OVERALL_HEALTH = 0
    /\ checkResults = [i \in DOMAIN Checks |-> "not run"]
    /\ dockerPresent = TRUE
    /\ RESPONSE_TIME = "not measured"
    /\ BACKEND_MEMORY = "not measured"
    /\ healthExit = "not started"

ScriptsIdle == DeployIdle /\ HealthIdle

\* The state of the three components after their useState calls.
ComponentsInit ==
    /\ funnelData = Null
    /\ loading = TRUE
    /\ error = Null
    /\ lastUpdated = 0
    /\ isRealTime = FALSE
    /\ connectionStatus = "checking"
    /\ mounted = FALSE
    /\ timers = 0
    /\ calls = << >>
    /\ nextId = 1
    /\ completed = << >>
    /\ last = NoEvent
    /\ component \in Components
    /\ unmounted = FALSE
    /\ adFunnelData = Null
    /\ recommendations = "[]"
    /\ posthogEvents = "[]"
    /\ isLoading = TRUE
    /\ adError = Null
    /\ isRealTimeEnabled = FALSE
    /\ adConnectionStatus = "connecting"
    /\ adLastUpdated = 0
    /\ adMounted = FALSE
    /\ adTimers = 0
    /\ adCalls = EmptyBag
    /\ adNextId = 1
    /\ adLast = AdNoEvent
    /\ agentStatus = "{}"
    /\ aiData = [n \in Collections |-> "[]"]
    /\ collaborationReport = Null
    /\ aiLoading = FALSE
    /\ aiError = Null
    /\ autoAnalysis = FALSE
    /\ aiMounted = FALSE
    /\ aiTimers = 0
    /\ aiStatusCall = FALSE
    /\ aiRuns = EmptyBag
    /\ aiNextId = 1
    /\ aiLast = AiNoEvent
    /\ activeView = "segments"
    /\ analyticsData = [k \in AnalyticsKeys |-> IF k = "comprehensiveReport" THEN Null ELSE "[]"]
    /\ aadLoading = FALSE
    /\ aadError = Null
    /\ aadFunnelId \in IF component = "AdvancedAnalyticsDashboard" THEN BOOLEAN ELSE {TRUE}
    /\ aadMounted = FALSE
    /\ aadCalls = EmptyBag
    /\ aadNextId = 1
    /\ aadLast = AadNoEvent
    /\ clock = 1

Init ==
    /\ ComponentsInit
    /\ analysis = << >>
    /\ shown = NotRendered
    /\ env = Unset
    /\ requests = {}
    /\ ScriptsIdle

\* ------------------------------------------------------------------ render
\* Which of the three return statements of App() produces the view.
View ==
    IF loading THEN "loading"
    ELSE IF error # Null THEN "error"
    ELSE "dashboard"

\* The funnel data the rendered view shows: only the dashboard renders it.
DisplayedData == IF View = "dashboard" THEN funnelData ELSE "not rendered"

\* The main panel of the dashboard: the tabs, or the "No Data Available" card.
MainPanel ==
    IF View # "dashboard" THEN "not rendered"
    ELSE IF funnelData # Null /\ HasAnalysis(funnelData) THEN "tabs"
    ELSE "no data"

\* The sidebar's connection-status indicator, as displayed.
Indicator ==
    IF View # "dashboard" THEN "not rendered"
    ELSE IF connectionStatus = "connected" THEN "PostHog Connected"
    ELSE IF connectionStatus = "disconnected" THEN "Using Mock Data"
    ELSE "Connection Error"

\* The error text the view shows.
DisplayedError == IF View = "error" THEN error ELSE "not rendered"

\* Variant of RefreshButtons: the loading screen also has a refresh button.
RefreshButtonsWhileLoading ==
    IF View = "loading" THEN {"loading refresh"}
    ELSE IF View = "error" THEN {"error retry"}
    ELSE {"sidebar refresh"} \cup
         (IF MainPanel = "no data" THEN {"no-data retry"} ELSE {})

\* Variant of RefreshButtons: the sidebar of the dashboard has no refresh button.
RefreshButtonsNoSidebar ==
    IF View = "loading" THEN {}
    ELSE IF View = "error" THEN {"error retry"}
    ELSE IF MainPanel = "no data" THEN {"no-data retry"} ELSE {}

\* The buttons of the rendered view whose onClick is refreshData.
RefreshButtons ==
    IF View = "loading" THEN {}
    ELSE IF View = "error" THEN {"error retry"}
    ELSE {"sidebar refresh"} \cup
         (IF MainPanel = "no data" THEN {"no-data retry"} ELSE {})

\* ------------------------------------------------------------------ fetchData
RemoveCall(i) == [j \in DOMAIN calls \ {i} |-> calls[j]]

\* Variant of StartFetch: every invocation first puts the indicator back to
\* 'checking'.
StartFetchResetsStatus(showLoading, src) ==
    /\ nextId <= MaxFetches
    /\ loading' = IF showLoading THEN TRUE ELSE loading
    /\ connectionStatus' = "checking"
    /\ calls' = calls @@ (nextId :>
                  [showLoading |-> showLoading, src |-> src, pc |-> "health",
                   health |-> NoResponse,
                   startData |-> funnelData, startUpdated |-> lastUpdated])
    /\ nextId' = nextId + 1
    /\ UNCHANGED <<funnelData, error, lastUpdated, clock, completed, last>>

\* fetchData(showLoading) up to its first await: line 28, then the request
\* to `${apiUrl}/` is in flight.  startData and startUpdated are history:
\* the stored data and timestamp when the invocation started.
StartFetch(showLoading, src) ==
    /\ nextId <= MaxFetches
    /\ loading' = IF showLoading THEN TRUE ELSE loading
    /\ calls' = calls @@ (nextId :>
                  [showLoading |-> showLoading, src |-> src, pc |-> "health",
                   health |-> NoResponse,
                   startData |-> funnelData, startUpdated |-> lastUpdated])
    /\ nextId' = nextId + 1
    /\ UNCHANGED <<funnelData, error, lastUpdated, connectionStatus, clock,
                   completed, last>>

\* Variant of CommitFailure: the catch block also clears the stored data.
CommitFailureClearsData(i, msg, h, f) ==
    /\ error' = msg
    /\ connectionStatus' = "error"
    /\ funnelData' = Null
    /\ loading' = IF calls[i].showLoading THEN FALSE ELSE loading
    /\ calls' = RemoveCall(i)
    /\ completed' = Append(completed, [id |-> i, result |-> "error"])
    /\ last' = [id |-> i, src |-> calls[i].src, polling |-> isRealTime,
                outcome |-> "error", health |-> h, funnel |-> f]
    /\ UNCHANGED <<lastUpdated, nextId, clock>>

\* Variant of CommitFailure: the catch block calls fetchData again.
CommitFailureRetries(i, msg, h, f) ==
    /\ error' = msg
    /\ connectionStatus' = "error"
    /\ loading' = IF calls[i].showLoading THEN FALSE ELSE loading
    /\ IF nextId <= MaxFetches
       THEN /\ calls' = RemoveCall(i) @@ (nextId :>
                  [showLoading |-> FALSE, src |-> "timer", pc |-> "health",
                   health |-> NoResponse,
                   startData |-> funnelData, startUpdated |-> lastUpdated])
            /\ nextId' = nextId + 1
       ELSE /\ calls' = RemoveCall(i)
            /\ nextId' = nextId
    /\ completed' = Append(completed, [id |-> i, result |-> "error"])
    /\ last' = [id |-> i, src |-> calls[i].src, polling |-> isRealTime,
                outcome |-> "error", health |-> h, funnel |-> f]
    /\ UNCHANGED <<funnelData, lastUpdated, clock>>

\* The catch block and the finally block.
CommitFailure(i, msg, h, f) ==
    /\ error' = msg
    /\ connectionStatus' = "error"
    /\ loading' = IF calls[i].showLoading THEN FALSE ELSE loading
    /\ calls' = RemoveCall(i)
    /\ completed' = Append(completed, [id |-> i, result |-> "error"])
    /\ last' = [id |-> i, src |-> calls[i].src, polling |-> isRealTime,
                outcome |-> "error", health |-> h, funnel |-> f]
    /\ UNCHANGED <<funnelData, lastUpdated, nextId, clock>>

\* Variant of CommitSuccess: a response is applied only when it answers the
\* most recently dispatched invocation (a request-id guard).
CommitSuccessLatestOnly(i, f) ==
    /\ IF i = nextId - 1
       THEN /\ funnelData' = ParseJson(f.body)
            /\ lastUpdated' = clock
            /\ clock' = clock + 1
            /\ error' = Null
       ELSE UNCHANGED <<funnelData, lastUpdated, clock, error>>
    /\ loading' = IF calls[i].showLoading THEN FALSE ELSE loading
    /\ calls' = RemoveCall(i)
    /\ completed' = Append(completed, [id |-> i, result |-> f.body])
    /\ last' = [id |-> i, src |-> calls[i].src, polling |-> isRealTime,
                outcome |-> "success", health |-> calls[i].health, funnel |-> f]
    /\ UNCHANGED <<connectionStatus, nextId>>

\* Variant of CommitSuccess: a payload without an analysis list does not
\* replace data that has one.
CommitSuccessMerges(i, f) ==
    /\ funnelData' = IF HasAnalysis(funnelData) /\ ~HasAnalysis(ParseJson(f.body))
                     THEN funnelData ELSE ParseJson(f.body)
    /\ lastUpdated' = clock
    /\ clock' = clock + 1
    /\ error' = Null
    /\ loading' = IF calls[i].showLoading THEN FALSE ELSE loading
    /\ calls' = RemoveCall(i)
    /\ completed' = Append(completed, [id |-> i, result |-> f.body])
    /\ last' = [id |-> i, src |-> calls[i].src, polling |-> isRealTime,
                outcome |-> "success", health |-> calls[i].health, funnel |-> f]
    /\ UNCHANGED <<connectionStatus, nextId>>

\* Lines 42-45 and the finally block.
CommitSuccess(i, f) ==
    /\ funnelData' = ParseJson(f.body)
    /\ lastUpdated' = clock
    /\ clock' = clock + 1
    /\ error' = Null
    /\ loading' = IF calls[i].showLoading THEN FALSE ELSE loading
    /\ calls' = RemoveCall(i)
    /\ completed' = Append(completed, [id |-> i, result |-> f.body])
    /\ last' = [id |-> i, src |-> calls[i].src, polling |-> isRealTime,
                outcome |-> "success", health |-> calls[i].health, funnel |-> f]
    /\ UNCHANGED <<connectionStatus, nextId>>

\* Lines 32-34: the health request settles and its body is read.  The
\* status of the health response is never tested.
HealthSettles(i, h) ==
    /\ i \in DOMAIN calls
    /\ calls[i].pc = "health"
    /\ IF ~h.transport THEN CommitFailure(i, MsgTransport, h, NoResponse)
       ELSE IF h.body = "badjson" THEN CommitFailure(i, MsgSyntax, h, NoResponse)
       ELSE /\ connectionStatus' = IF h.body = "up" THEN "connected" ELSE "disconnected"
            /\ calls' = [calls EXCEPT ![i].pc = "funnel", ![i].health = h]
            /\ UNCHANGED <<funnelData, loading, error, lastUpdated, nextId, clock,
                           completed, last>>
    /\ UNCHANGED <<isRealTime, mounted, timers>>
    /\ AppStep

\* Variant of FunnelSettles: the status of the funnel response is not
\* tested, and the body of an error response is stored as data.
FunnelSettlesNoStatusTest(i, f) ==
    /\ i \in DOMAIN calls
    /\ calls[i].pc = "funnel"
    /\ IF ~f.transport THEN CommitFailure(i, MsgTransport, calls[i].health, f)
       ELSE IF f.body = "badjson" THEN CommitFailure(i, MsgSyntax, calls[i].health, f)
       ELSE CommitSuccess(i, IF f.ok THEN f ELSE [f EXCEPT !.body = "pErr"])
    /\ UNCHANGED <<isRealTime, mounted, timers>>
    /\ AppStep

\* Lines 36-45: the funnel request settles, its status is tested and its
\* body is read.
FunnelSettles(i, f) ==
    /\ i \in DOMAIN calls
    /\ calls[i].pc = "funnel"
    /\ IF ~f.transport THEN CommitFailure(i, MsgTransport, calls[i].health, f)
       ELSE IF ~f.ok THEN CommitFailure(i, MsgHttp, calls[i].health, f)
       ELSE IF f.body = "badjson" THEN CommitFailure(i, MsgSyntax, calls[i].health, f)
       ELSE CommitSuccess(i, f)
    /\ UNCHANGED <<isRealTime, mounted, timers>>
    /\ AppStep

\* ------------------------------------------------------------------ effects and handlers
\* useEffect(() => { fetchData(); }, [fetchData])
Mount ==
    /\ ~mounted
    /\ mounted' = TRUE
    /\ StartFetch(TRUE, "mount")
    /\ UNCHANGED <<isRealTime, timers>>
    /\ AppStep

\* Variant of ToggleRealTime: the cleanup of the polling effect also
\* abandons the invocations in flight.
ToggleRealTimeAborts ==
    /\ mounted
    /\ View = "dashboard"
    /\ isRealTime' = ~isRealTime
    /\ timers' = (IF timers > 0 THEN timers - 1 ELSE 0) + (IF ~isRealTime THEN 1 ELSE 0)
    /\ calls' = IF isRealTime THEN << >> ELSE calls
    /\ UNCHANGED <<funnelData, loading, error, lastUpdated, connectionStatus,
                   mounted, nextId, clock, completed, last>>
    /\ AppStep

\* Variant of ToggleRealTime: the polling effect returns no cleanup, so the
\* interval it set is never cleared.
ToggleRealTimeLeaksTimer ==
    /\ mounted
    /\ View = "dashboard"
    /\ isRealTime' = ~isRealTime
    /\ timers' = IF ~isRealTime /\ timers = 0 THEN 1 ELSE timers
    /\ UNCHANGED <<funnelData, loading, error, lastUpdated, connectionStatus,
                   mounted, calls, nextId, clock, completed, last>>
    /\ AppStep

\* The real-time toggle's onClick with the polling effect it re-runs: the
\* previous effect's cleanup clears its interval, then the effect body sets
\* a new interval when isRealTime is now true.
ToggleRealTime ==
    /\ mounted
    /\ View = "dashboard"
    /\ isRealTime' = ~isRealTime
    /\ timers' = (IF timers > 0 THEN timers - 1 ELSE 0) + (IF ~isRealTime THEN 1 ELSE 0)
    /\ UNCHANGED <<funnelData, loading, error, lastUpdated, connectionStatus,
                   mounted, calls, nextId, clock, completed, last>>
    /\ AppStep

\* Variant of Tick: the interval callback skips the tick while an earlier
\* invocation is still in flight.
TickCoalesced ==
    /\ timers > 0
    /\ calls = << >>
    /\ StartFetch(FALSE, "timer")
    /\ UNCHANGED <<isRealTime, mounted, timers>>
    /\ AppStep

\* Variant of Tick: the interval callback calls fetchData() with the default
\* argument, so the polling fetch shows the loading indicator.
TickShowsLoading ==
    /\ timers > 0
    /\ StartFetch(TRUE, "timer")
    /\ UNCHANGED <<isRealTime, mounted, timers>>
    /\ AppStep

\* The interval callback: fetchData(false).
Tick ==
    /\ timers > 0
    /\ StartFetch(FALSE, "timer")
    /\ UNCHANGED <<isRealTime, mounted, timers>>
    /\ AppStep

\* refreshData, the onClick of every refresh/retry button.
RefreshData ==
    /\ mounted
    /\ RefreshButtons # {}
    /\ StartFetch(TRUE, "user")
    /\ UNCHANGED <<isRealTime, mounted, timers>>
    /\ AppStep

\* ------------------------------------------------------------------ AnalyticsDashboard
\* Which return statement of AnalyticsDashboard() produces the view.
AdView ==
    IF isLoading /\ adFunnelData = Null THEN "loading"
    ELSE IF adError # Null THEN "error"
    ELSE "dashboard"

\* The buttons on screen whose onClick is fetchFunnelData: the error
\* screen's retry, and the dashboard's refresh unless disabled={isLoading}.
AdRefreshButtons ==
    IF AdView = "error" THEN {"retry"}
    ELSE IF AdView = "dashboard" /\ ~isLoading THEN {"refresh"}
    ELSE {}

\* The invocations in flight without one copy of c / with c in place of it.
AdRemoveCall(c) == adCalls (-) SetToBag({c})
AdReplaceCall(c, d) == (adCalls (-) SetToBag({c})) (+) SetToBag({d})

\* What invocation c has met once response r to the request it awaits is in;
\* parsed tells whether the code reads the body of r.
Met(c, r, parsed) ==
    [transportFailed |-> c.met.transportFailed \/ ~r.transport,
     funnelNonOk |-> c.met.funnelNonOk
                       \/ (c.pc = "funnel" /\ r.transport /\ ~r.ok),
     badBody |-> c.met.badBody
                       \/ (r.transport /\ parsed /\ r.body = "badjson")]

\* fetchFunnelData up to its first await: setError(null), then the request
\* to `${API_BASE}/` is in flight.  met is history.
AdStartFetch ==
    /\ adNextId <= MaxFetches
    /\ adError' = Null
    /\ adCalls' = adCalls (+) SetToBag({[pc |-> "health", met |-> NothingMet]})
    /\ adNextId' = adNextId + 1
    /\ UNCHANGED <<adFunnelData, recommendations, posthogEvents, isLoading,
                   adConnectionStatus, adLastUpdated, adLast, clock>>

\* The catch block and the finally block.
AdCommitFailure(c, msg, r, parsed) ==
    /\ adError' = msg
    /\ adConnectionStatus' = "error"
    /\ isLoading' = FALSE
    /\ adCalls' = AdRemoveCall(c)
    /\ adLast' = [outcome |-> "error", met |-> Met(c, r, parsed)]
    /\ UNCHANGED <<adFunnelData, recommendations, posthogEvents, adLastUpdated,
                   adNextId, clock>>

\* An await of fetchFunnelData is passed: the invocation goes on to its next request.
AdAdvance(c, pc, r, parsed) ==
    adCalls' = AdReplaceCall(c, [c EXCEPT !.pc = pc, !.met = Met(c, r, parsed)])

\* Lines 834-841: the health request settles and its body is read; its
\* status is never tested.
AdHealthSettles(c, h) ==
    /\ BagIn(c, adCalls)
    /\ c.pc = "health"
    /\ IF ~h.transport THEN AdCommitFailure(c, MsgTransport, h, TRUE)
       ELSE IF h.body = "badjson" THEN AdCommitFailure(c, MsgSyntax, h, TRUE)
       ELSE /\ adConnectionStatus' = IF h.body = "up" THEN "connected" ELSE "warning"
            /\ AdAdvance(c, "funnel", h, TRUE)
            /\ UNCHANGED <<adFunnelData, recommendations, posthogEvents, isLoading,
                           adError, adLastUpdated, adNextId, adLast, clock>>
    /\ UNCHANGED <<isRealTimeEnabled, adMounted, adTimers>>
    /\ AdStep

\* Lines 844-849: the funnel request settles, its status is tested, its body
\* is read and stored.
AdFunnelSettles(c, f) ==
    /\ BagIn(c, adCalls)
    /\ c.pc = "funnel"
    /\ IF ~f.transport THEN AdCommitFailure(c, MsgTransport, f, f.ok)
       ELSE IF ~f.ok THEN AdCommitFailure(c, MsgHttp, f, f.ok)
       ELSE IF f.body = "badjson" THEN AdCommitFailure(c, MsgSyntax, f, f.ok)
       ELSE /\ adFunnelData' = ParseJson(f.body)
            /\ AdAdvance(c, "recommendations", f, f.ok)
            /\ UNCHANGED <<recommendations, posthogEvents, isLoading, adError,
                           adConnectionStatus, adLastUpdated, adNextId, adLast, clock>>
    /\ UNCHANGED <<isRealTimeEnabled, adMounted, adTimers>>
    /\ AdStep

\* Lines 852-856: the recommendations request settles; a response that is
\* not OK is skipped.
AdRecommendationsSettle(c, r) ==
    /\ BagIn(c, adCalls)
    /\ c.pc = "recommendations"
    /\ IF ~r.transport THEN AdCommitFailure(c, MsgTransport, r, r.ok)
       ELSE IF r.ok /\ r.body = "badjson" THEN AdCommitFailure(c, MsgSyntax, r, r.ok)
       ELSE /\ recommendations' = IF r.ok THEN ListOrEmpty(r.body) ELSE recommendations
            /\ AdAdvance(c, "events", r, r.ok)
            /\ UNCHANGED <<adFunnelData, posthogEvents, isLoading, adError,
                           adConnectionStatus, adLastUpdated, adNextId, adLast, clock>>
    /\ UNCHANGED <<isRealTimeEnabled, adMounted, adTimers>>
    /\ AdStep

\* Lines 859-865 and the finally block: the events request settles; a
\* response that is not OK is skipped; the timestamp is refreshed.
AdEventsSettle(c, r) ==
    /\ BagIn(c, adCalls)
    /\ c.pc = "events"
    /\ IF ~r.transport THEN AdCommitFailure(c, MsgTransport, r, r.ok)
       ELSE IF r.ok /\ r.body = "badjson" THEN AdCommitFailure(c, MsgSyntax, r, r.ok)
       ELSE /\ posthogEvents' = IF r.ok THEN ListOrEmpty(r.body) ELSE posthogEvents
            /\ adLastUpdated' = clock
            /\ clock' = clock + 1
            /\ isLoading' = FALSE
            /\ adCalls' = AdRemoveCall(c)
            /\ adLast' = [outcome |-> "success", met |-> Met(c, r, r.ok)]
            /\ UNCHANGED <<adFunnelData, recommendations, adError,
                           adConnectionStatus, adNextId>>
    /\ UNCHANGED <<isRealTimeEnabled, adMounted, adTimers>>
    /\ AdStep

\* The polling effect on mount: fetchFunnelData(), and no interval since
\* isRealTimeEnabled starts false.
AdMount ==
    /\ ~adMounted
    /\ adMounted' = TRUE
    /\ AdStartFetch
    /\ UNCHANGED <<isRealTimeEnabled, adTimers>>
    /\ AdStep

\* The real-time toggle's onClick with the polling effect it re-runs: the
\* cleanup clears the interval, the effect body calls fetchFunnelData() and
\* sets a new interval when isRealTimeEnabled is now true.
AdToggleRealTime ==
    /\ adMounted
    /\ AdView = "dashboard"
    /\ isRealTimeEnabled' = ~isRealTimeEnabled
    /\ adTimers' = (IF adTimers > 0 THEN adTimers - 1 ELSE 0)
                     + (IF ~isRealTimeEnabled THEN 1 ELSE 0)
    /\ AdStartFetch
    /\ UNCHANGED adMounted
    /\ AdStep

\* The interval callback: fetchFunnelData.
AdTick ==
    /\ adTimers > 0
    /\ AdStartFetch
    /\ UNCHANGED <<isRealTimeEnabled, adMounted, adTimers>>
    /\ AdStep

\* The onClick of the retry and refresh buttons: fetchFunnelData.
AdRefresh ==
    /\ adMounted
    /\ AdRefreshButtons # {}
    /\ AdStartFetch
    /\ UNCHANGED <<isRealTimeEnabled, adMounted, adTimers>>
    /\ AdStep

\* ------------------------------------------------------------------ AIAgentDashboard
\* `AI Analysis Failed: ${error.message}. ...` and `Agent Status Error: ${error.message}`
MsgAnalysisApi == "Analysis API error! status"
AiAnalysisFailed(msg) ==
    IF msg = MsgTransport THEN "AI Analysis Failed: Failed to fetch"
    ELSE "AI Analysis Failed: Analysis API error! status"
AiStatusError(msg) ==
    IF msg = MsgTransport THEN "Agent Status Error: Failed to fetch"
    ELSE IF msg = MsgHttp THEN "Agent Status Error: HTTP error! status"
    ELSE "Agent Status Error: Unexpected token"

\* triggerAIAnalysis up to its first await: lines 458-459, then the POST is
\* in flight.
AiStartRun ==
    /\ aiNextId <= MaxFetches
    /\ aiLoading' = TRUE
    /\ aiError' = Null
    /\ aiRuns' = aiRuns (+) SetToBag({[pc |-> "post"]})
    /\ aiNextId' = aiNextId + 1
    /\ UNCHANGED <<agentStatus, aiData, collaborationReport, aiLast>>

\* Lines 462-468 with the catch and finally blocks: the POST settles.
AiPostSettles(c, r) ==
    /\ BagIn(c, aiRuns)
    /\ c.pc = "post"
    /\ IF ~r.transport \/ ~r.ok
       THEN /\ aiError' = AiAnalysisFailed(IF r.transport THEN MsgAnalysisApi ELSE MsgTransport)
            /\ aiLoading' = FALSE
            /\ aiRuns' = aiRuns (-) SetToBag({c})
            /\ aiLast' = [outcome |-> "error", post |-> r, gets |-> "none",
                          before |-> FALSE]
       ELSE /\ aiRuns' = (aiRuns (-) SetToBag({c})) (+) SetToBag({[pc |-> "gets"]})
            /\ UNCHANGED <<aiError, aiLoading, aiLast>>
    /\ UNCHANGED <<agentStatus, aiData, collaborationReport, autoAnalysis,
                   aiMounted, aiTimers, aiStatusCall, aiNextId>>
    /\ AiStep

\* Lines 483-497 and the finally block: the six requests have settled.
AiGetsSettle(c, g) ==
    /\ BagIn(c, aiRuns)
    /\ c.pc = "gets"
    /\ aiData' = [n \in Collections |-> FieldOrSelf(FetchWithErrorHandling(g[n], "[]"))]
    /\ collaborationReport' = FetchWithErrorHandling(g["collaboration"], "{}")
    /\ aiLoading' = FALSE
    /\ aiRuns' = aiRuns (-) SetToBag({c})
    /\ aiLast' = [outcome |-> "success",
                  post |-> [transport |-> TRUE, ok |-> TRUE, body |-> "unread"],
                  gets |-> g, before |-> \A n \in Collections : aiData[n] = "list"]
    /\ UNCHANGED <<agentStatus, aiError, autoAnalysis, aiMounted, aiTimers,
                   aiStatusCall, aiNextId>>
    /\ AiStep

\* fetchAgentStatus once its request has settled (lines 443-453).
AiStatusSettles(r) ==
    /\ aiStatusCall
    /\ aiStatusCall' = FALSE
    /\ IF ~r.transport THEN aiError' = AiStatusError(MsgTransport) /\ UNCHANGED agentStatus
       ELSE IF ~r.ok THEN aiError' = AiStatusError(MsgHttp) /\ UNCHANGED agentStatus
       ELSE IF r.body = "badjson" THEN aiError' = AiStatusError(MsgSyntax) /\ UNCHANGED agentStatus
       ELSE aiError' = Null /\ agentStatus' = r.body
    /\ UNCHANGED <<aiData, collaborationReport, aiLoading, autoAnalysis, aiMounted,
                   aiTimers, aiRuns, aiNextId, aiLast>>
    /\ AiStep

\* The mount effect: fetchAgentStatus(); triggerAIAnalysis().
AiMount ==
    /\ ~aiMounted
    /\ aiMounted' = TRUE
    /\ aiStatusCall' = TRUE
    /\ AiStartRun
    /\ UNCHANGED <<autoAnalysis, aiTimers>>
    /\ AiStep

\* The auto-analysis toggle's onClick with the effect it re-runs.
AiToggleAutoAnalysis ==
    /\ aiMounted
    /\ autoAnalysis' = ~autoAnalysis
    /\ aiTimers' = (IF aiTimers > 0 THEN aiTimers - 1 ELSE 0)
                     + (IF ~autoAnalysis THEN 1 ELSE 0)
    /\ UNCHANGED <<agentStatus, aiData, collaborationReport, aiLoading, aiError,
                   aiMounted, aiStatusCall, aiRuns, aiNextId, aiLast>>
    /\ AiStep

\* The interval callback: triggerAIAnalysis().
AiTick ==
    /\ aiTimers > 0
    /\ AiStartRun
    /\ UNCHANGED <<autoAnalysis, aiMounted, aiTimers, aiStatusCall>>
    /\ AiStep

\* The buttons on screen whose onClick is triggerAIAnalysis: "Run AI
\* Analysis" unless disabled={loading}, and the error banner's retry.
AiRunButtons ==
    (IF aiLoading THEN {} ELSE {"run"}) \cup (IF aiError # Null THEN {"retry"} ELSE {})

AiRunAnalysis ==
    /\ aiMounted
    /\ AiRunButtons # {}
    /\ AiStartRun
    /\ UNCHANGED <<autoAnalysis, aiMounted, aiTimers, aiStatusCall>>
    /\ AiStep

\* The error banner's dismiss button: setError(null).
AiDismissError ==
    /\ aiMounted
    /\ aiError # Null
    /\ aiError' = Null
    /\ UNCHANGED <<agentStatus, aiData, collaborationReport, aiLoading, autoAnalysis,
                   aiMounted, aiTimers, aiStatusCall, aiRuns, aiNextId, aiLast>>
    /\ AiStep

\* ------------------------------------------- AdvancedAnalyticsDashboard
\* fetchAnalyticsData(viewType) up to its await of fetch.
AadStartFetch(viewType) ==
    IF aadFunnelId
    THEN /\ aadNextId <= MaxFetches
         /\ aadLoading' = TRUE
         /\ aadError' = Null
         /\ aadCalls' = aadCalls (+) SetToBag({[viewType |-> viewType]})
         /\ aadNextId' = aadNextId + 1
    ELSE UNCHANGED <<aadLoading, aadError, aadCalls, aadNextId>>

\* The rest of fetchAnalyticsData, once the response is there: response.json(),
\* the test of response.ok, catch and finally.
AadSettles(c, r) ==
    /\ c \in BagToSet(aadCalls)
    /\ aadCalls' = aadCalls (-) SetToBag({c})
    /\ aadLoading' = FALSE
    /\ IF ~r.transport
       THEN /\ aadError' = MsgTransport
            /\ UNCHANGED analyticsData
       ELSE IF r.body = "badjson"
       THEN /\ aadError' = MsgSyntax
            /\ UNCHANGED analyticsData
       ELSE IF r.ok
       THEN /\ analyticsData' =
                  [analyticsData EXCEPT ![AnalyticsKey(c.viewType)] = ParseJson(r.body)]
            /\ UNCHANGED aadError
       ELSE /\ aadError' = IF r.body = "errBody" THEN MsgErrorField
                           ELSE MsgAnalyticsFailed
            /\ UNCHANGED analyticsData
    /\ aadLast' = [outcome |-> IF r.transport /\ r.body # "badjson" /\ r.ok
                               THEN "success" ELSE "error",
                   viewType |-> c.viewType, response |-> r]
    /\ UNCHANGED <<activeView, aadFunnelId, aadMounted, aadNextId>>
    /\ AadStep

\* useEffect(() => fetchAnalyticsData(activeView), [activeView]) on mount
AadMount ==
    /\ ~aadMounted
    /\ aadMounted' = TRUE
    /\ AadStartFetch(activeView)
    /\ UNCHANGED <<activeView, analyticsData, aadFunnelId, aadLast>>
    /\ AadStep

\* A navigation button sets activeView; the effect runs when it changed.
AadSelectView(v) ==
    /\ aadMounted
    /\ v # activeView
    /\ activeView' = v
    /\ AadStartFetch(v)
    /\ UNCHANGED <<analyticsData, aadFunnelId, aadMounted, aadLast>>
    /\ AadStep

\* The retry button of the error state.
AadRetry ==
    /\ aadMounted
    /\ aadError # Null
    /\ aadFunnelId
    /\ AadStartFetch(activeView)
    /\ UNCHANGED <<activeView, analyticsData, aadFunnelId, aadMounted, aadLast>>
    /\ AadStep

Next ==
    \/ Mount
    \/ ToggleRealTime
    \/ Tick
    \/ RefreshData
    \/ \E i \in 1..MaxFetches, h \in HealthResponses : HealthSettles(i, h)
    \/ \E i \in 1..MaxFetches, f \in FunnelResponses : FunnelSettles(i, f)
    \/ AdMount
    \/ AdToggleRealTime
    \/ AdTick
    \/ AdRefresh
    \/ \E c \in BagToSet(adCalls), h \in HealthResponses : AdHealthSettles(c, h)
    \/ \E c \in BagToSet(adCalls), f \in FunnelResponses : AdFunnelSettles(c, f)
    \/ \E c \in BagToSet(adCalls), r \in ListResponses : AdRecommendationsSettle(c, r)
    \/ \E c \in BagToSet(adCalls), r \in ListResponses : AdEventsSettle(c, r)
    \/ AiMount
    \/ AiToggleAutoAnalysis
    \/ AiTick
    \/ AiRunAnalysis
    \/ AiDismissError
    \/ \E r \in StatusResponses : AiStatusSettles(r)
    \/ \E c \in BagToSet(aiRuns), r \in PostResponses : AiPostSettles(c, r)
    \/ \E c \in BagToSet(aiRuns), g \in GetScenarios : AiGetsSettle(c, g)
    \/ AadMount
    \/ \E v \in AnalyticsViews : AadSelectView(v)
    \/ AadRetry
    \/ \E c \in BagToSet(aadCalls), r \in AnalyticsResponses : AadSettles(c, r)

Spec == Init /\ [][Next]_vars

\* ------------------------------------------------------------------ views
\* The views of a fetched payload are pure functions of its analysis array
\* (App.jsx 383-425 hands funnelData, or funnelData.analysis, to each of
\* them).  ViewSpec draws the array from a bounded set and lets every view
\* render it.

\* steps in the analysis array of a payload
MaxSteps == 3

\* A JavaScript number is kept exact, as a fraction of thousandths:
\* [num |-> n, den |-> d] stands for n / (1000 * d).
Num(n) == [num |-> n, den |-> 1]
Pct(n) == Num(n * 1000)
Add(x, y) == [num |-> x.num * y.den + y.num * x.den, den |-> x.den * y.den]
Sub(x, y) == [num |-> x.num * y.den - y.num * x.den, den |-> x.den * y.den]
Div(x, n) == [num |-> x.num, den |-> x.den * n]
Gt(x, y) == x.num * y.den > y.num * x.den

\* x || 0 for a number x
OrZero(x) == IF x.num = 0 THEN Pct(0) ELSE x

\* A string is the sequence of its pieces: the characters that matter to the
\* code (underscore, space, comma, newline, point, digits) are pieces of their
\* own, a run of other characters is one piece.
Digit(k) == <<"0", "1", "2", "3", "4", "5", "6", "7", "8", "9">>[k + 1]

RECURSIVE Pow10(_)
Pow10(d) == IF d = 0 THEN 1 ELSE 10 * Pow10(d - 1)

\* String(n) for a non-negative integer n
RECURSIVE Digits(_)
Digits(n) == IF n < 10 THEN <<Digit(n)>> ELSE Digits(n \div 10) \o <<Digit(n % 10)>>

\* the last d digits of m, zero-padded
RECURSIVE FracDigits(_, _)
FracDigits(m, d) ==
    IF d = 0 THEN << >> ELSE FracDigits(m \div 10, d - 1) \o <<Digit(m % 10)>>

\* Number.prototype.toFixed(d) for x >= 0: the integer n for which n / 10^d is
\* closest to x, the larger one when two are equally close.
ToFixed(x, d) ==
    LET n == (2 * x.num * Pow10(d) + 1000 * x.den) \div (2 * 1000 * x.den)
    IN Digits(n \div Pow10(d)) \o <<".">> \o FracDigits(n % Pow10(d), d)

\* s.replace(/_/g, ' ')
ReplaceUnderscores(s) == [i \in 1..Len(s) |-> IF s[i] = "_" THEN " " ELSE s[i]]

\* Array.prototype.join
RECURSIVE Join(_, _)
Join(cells, sep) ==
    IF Len(cells) = 0 THEN << >>
    ELSE IF Len(cells) = 1 THEN cells[1]
    ELSE cells[1] \o <<sep>> \o Join(Tail(cells), sep)

\* Array.prototype.reduce(op, init)
Reduce(op(_, _), data, init) ==
    LET f[i \in 0..Len(data)] == IF i = 0 THEN init ELSE op(f[i - 1], data[i])
    IN f[Len(data)]

\* Array.prototype.reduce(op) without an initial value, on a non-empty array
Reduce1(op(_, _), data) == Reduce(op, Tail(data), Head(data))

\* Array.prototype.filter(pred).length
FilterLength(pred(_), data) == Cardinality({i \in 1..Len(data) : pred(data[i])})

\* The step identifiers of the payloads, by position in the funnel.
StepIds ==
    << <<"signup">>, <<"verify", "_", "email">>, <<"activate">>,
       <<"choose", "_", "plan">>, <<"invite">> >>

\* drop_off_rate values: 5, 10, 30, 30.005 and 45 percent
Rates == {Pct(5), Pct(10), Pct(30), Num(30005), Pct(45)}

\* A StepResult of the payload.  conversion_rate is the complement of
\* drop_off_rate and count falls along the funnel.
StepResult(i, rate) ==
    [step |-> StepIds[i], count |-> 1000 \div i,
     conversion_rate |-> Sub(Pct(100), rate), drop_off_rate |-> rate]

Analyses ==
    UNION {{[i \in 1..n |-> StepResult(i, r[i])] : r \in [1..n -> Rates]} :
           n \in 1..MaxSteps}

\* ---- DropOffTable
DropOffTable(data) ==
    [view |-> "DropOffTable",
     rows |-> [i \in 1..Len(data) |->
        LET step == data[i] IN
        [name |-> ReplaceUnderscores(step.step),
         rate |-> ToFixed(step.drop_off_rate, 1),
         level |-> IF Gt(step.drop_off_rate, Pct(30)) THEN "high"
                   ELSE IF Gt(step.drop_off_rate, Pct(15)) THEN "medium" ELSE "low",
         badge |-> IF Gt(step.drop_off_rate, Pct(30)) THEN "high-risk"
                   ELSE IF Gt(step.drop_off_rate, Pct(15)) THEN "moderate"
                   ELSE "healthy",
         warning |-> Gt(step.drop_off_rate, Pct(30))]]]

\* ---- FunnelChart
GetStepStatusAtLeast30(dropOffRate) ==
    IF ~Gt(Pct(30), dropOffRate) THEN "high-risk"
    ELSE IF Gt(dropOffRate, Pct(15)) THEN "moderate"
    ELSE "healthy"

GetStepStatus(dropOffRate) ==
    IF Gt(dropOffRate, Pct(30)) THEN "high-risk"
    ELSE IF Gt(dropOffRate, Pct(15)) THEN "moderate"
    ELSE "healthy"

FunnelChart(data) ==
    [view |-> "FunnelChart",
     rows |-> [i \in 1..Len(data) |->
        [status |-> GetStepStatus(data[i].drop_off_rate),
         critical |-> Gt(data[i].drop_off_rate, Pct(30))]],
     biggest |-> ReplaceUnderscores(
        Reduce1(LAMBDA max, step :
                    IF Gt(step.drop_off_rate, max.drop_off_rate) THEN step ELSE max,
                data).step)]

\* ---- RecommendationsList
GenerateRecommendations(analysisData) ==
    LET recs == Reduce(LAMBDA acc, step :
                    IF Gt(step.drop_off_rate, Pct(30))
                    THEN Append(acc, [priority |-> "high", step |-> step.step])
                    ELSE IF Gt(step.drop_off_rate, Pct(15))
                    THEN Append(acc, [priority |-> "medium", step |-> step.step])
                    ELSE acc,
                analysisData, << >>)
    IN IF Len(recs) = 0 THEN <<[priority |-> "low", step |-> <<"overall">>]>> ELSE recs

RecommendationsList(data) ==
    [view |-> "RecommendationsList",
     recommendations |-> GenerateRecommendations(data),
     retention |-> ToFixed(
        Sub(Pct(100),
            Div(Reduce(LAMBDA acc, step : Add(acc, step.drop_off_rate), data, Pct(0)),
                Len(data))), 1)]

\* ---- ExportPanel
CsvHeaders ==
    << <<"Step">>, <<"Users">>, <<"Drop-off Rate (%)">>, <<"Conversion Rate (%)">> >>

CsvRow(step) ==
    << ReplaceUnderscores(step.step),
       Digits(step.count),
       ToFixed(step.drop_off_rate, 2),
       ToFixed(step.conversion_rate, 2) >>

ExportCsv(data) ==
    [view |-> "csv",
     content |-> Join([i \in 1..(Len(data) + 1) |->
                          Join(IF i = 1 THEN CsvHeaders ELSE CsvRow(data[i - 1]), ",")],
                      "\n")]

GenerateHTMLReport(data) ==
    [view |-> "report",
     criticalIssues |-> FilterLength(LAMBDA s : Gt(s.drop_off_rate, Pct(30)), data),
     rows |-> [i \in 1..Len(data) |->
        LET step == data[i] IN
        [dropOff |-> ToFixed(step.drop_off_rate, 2),
         conversion |-> ToFixed(step.conversion_rate, 2),
         status |-> IF Gt(step.drop_off_rate, Pct(30)) THEN "status-critical"
                    ELSE IF Gt(step.drop_off_rate, Pct(15)) THEN "status-moderate"
                    ELSE "status-healthy"]]]

\* ---- App, overview tab
Overview(data) ==
    [view |-> "Overview",
     criticalSteps |-> FilterLength(LAMBDA s : Gt(s.drop_off_rate, Pct(30)), data)]

\* ---- PerformanceMetrics
AvgDropOffSkipsFirst(data) ==
    Div(Reduce(LAMBDA acc, step : Add(acc, step.drop_off_rate), Tail(data), Pct(0)),
        Len(data))

AvgDropOff(data) ==
    Div(Reduce(LAMBDA acc, step : Add(acc, step.drop_off_rate), data, Pct(0)),
        Len(data))

CalculateMetrics(data) ==
    LET bottlenecks == FilterLength(LAMBDA step : Gt(step.drop_off_rate, Pct(30)), data)
        biggestDropOffStep ==
            Reduce(LAMBDA max, step :
                       IF Gt(step.drop_off_rate, max.drop_off_rate) THEN step ELSE max,
                   data, data[1])
    IN [view |-> "PerformanceMetrics",
        avgDropOff |-> ToFixed(AvgDropOff(data), 1),
        bottlenecks |-> bottlenecks,
        biggestDropOff |->
            IF "step_name" \in DOMAIN biggestDropOffStep
            THEN biggestDropOffStep.step_name
            ELSE <<"Unknown Step">>]

\* ---- AnalyticsDashboard, key metrics
KeyMetrics(data) ==
    LET avgDropOff ==
            OrZero(Div(Reduce(LAMBDA acc, step : Add(acc, step.drop_off_rate),
                              data, Pct(0)),
                       IF Len(data) = 0 THEN 1 ELSE Len(data)))
    IN [view |-> "KeyMetrics",
        avgDropOff |-> avgDropOff,
        avgDropOffShown |-> ToFixed(avgDropOff, 1)]

\* ---- rendering
\* A view renders the payload it was handed; nothing else changes.
viewFrame == <<appVars, adVars, aiVars, aadVars, clock, component, analysis, urlVars,
               lifeVars, scriptVars>>

RenderDropOffTable ==
    /\ analysis # << >>
    /\ shown' = DropOffTable(analysis)
    /\ UNCHANGED viewFrame

RenderFunnelChart ==
    /\ analysis # << >>
    /\ shown' = FunnelChart(analysis)
    /\ UNCHANGED viewFrame

RenderRecommendationsList ==
    /\ analysis # << >>
    /\ shown' = RecommendationsList(analysis)
    /\ UNCHANGED viewFrame

RenderOverview ==
    /\ analysis # << >>
    /\ shown' = Overview(analysis)
    /\ UNCHANGED viewFrame

RenderPerformanceMetrics ==
    /\ analysis # << >>
    /\ shown' = CalculateMetrics(analysis)
    /\ UNCHANGED viewFrame

RenderKeyMetrics ==
    /\ analysis # << >>
    /\ shown' = KeyMetrics(analysis)
    /\ UNCHANGED viewFrame

\* ExportPanel.exportData(format), for the formats that read the steps
ExportData(format) ==
    /\ analysis # << >>
    /\ shown' = IF format = "csv" THEN ExportCsv(analysis)
                ELSE GenerateHTMLReport(analysis)
    /\ UNCHANGED viewFrame

ViewInit ==
    /\ ComponentsInit
    /\ component = "App"
    /\ analysis \in Analyses
    /\ shown = NotRendered
    /\ env = Unset
    /\ requests = {}
    /\ ScriptsIdle

ViewNext ==
    \/ RenderDropOffTable
    \/ RenderFunnelChart
    \/ RenderRecommendationsList
    \/ \E format \in {"csv", "report"} : ExportData(format)
    \/ RenderOverview
    \/ RenderPerformanceMetrics
    \/ RenderKeyMetrics

ViewSpec == ViewInit /\ [][ViewNext]_vars

\* --------------------------------------------------------------- requests
\* Where each call of fetch goes.  UrlSpec draws the environment setting of
\* the build and lets the component issue its requests.
DefaultBase == "http://127.0.0.1:8000"

\* The values of the setting: not set, empty, and two base URLs.
Settings == {Unset, "", "http://localhost/api", "https://api.yourdomain.com"}

\* process.env.REACT_APP_BACKEND_API_URL || 'http://127.0.0.1:8000'
ApiUrl(setting) == IF setting \in {Unset, ""} THEN DefaultBase ELSE setting

\* const API_BASE = 'http://127.0.0.1:8000' of AIAgentDashboard and of
\* AnalyticsDashboard
API_BASE == DefaultBase

\* The paths each component requests.
AppPaths == {"/", "/funnel/onboarding"}
AadPaths ==
    {"/analytics/segments/{id}", "/analytics/cohorts/{id}",
     "/analytics/session-replays/{id}", "/analytics/predictive-insights/{id}",
     "/analytics/comprehensive-report/{id}"}
AdPaths == {"/", "/funnel/{id}", "/recommendations/{id}", "/posthog/events"}
AiPaths ==
    {"/ai/agents/status", "/ai/analyze/onboarding", "/ai/insights/onboarding",
     "/ai/predictions/onboarding", "/ai/anomalies/onboarding",
     "/ai/optimizations/onboarding", "/ai/patterns/onboarding",
     "/ai/collaboration-report/onboarding"}

\* fetch(`${base}${path}`): the request it issues.
Fetch(by, base, path) == [by |-> by, base |-> base, path |-> path]

\* Issuing a request changes no state of the component.
urlFrame == <<appVars, adVars, aiVars, aadVars, clock, component, analysis, shown, env,
              lifeVars, scriptVars>>

AppFetch(path) ==
    /\ component = "App"
    /\ requests' = requests \cup {Fetch("App", ApiUrl(env), path)}
    /\ UNCHANGED urlFrame

AadFetch(path) ==
    /\ component = "AdvancedAnalyticsDashboard"
    /\ requests' = requests \cup {Fetch("AdvancedAnalyticsDashboard", ApiUrl(env), path)}
    /\ UNCHANGED urlFrame

AdFetch(path) ==
    /\ component = "AnalyticsDashboard"
    /\ requests' = requests \cup {Fetch("AnalyticsDashboard", API_BASE, path)}
    /\ UNCHANGED urlFrame

AiFetch(path) ==
    /\ component = "AIAgentDashboard"
    /\ requests' = requests \cup {Fetch("AIAgentDashboard", API_BASE, path)}
    /\ UNCHANGED urlFrame

UrlInit ==
    /\ ComponentsInit
    /\ analysis = << >>
    /\ shown = NotRendered
    /\ env \in Settings
    /\ requests = {}
    /\ ScriptsIdle

UrlNext ==
    \/ \E path \in AppPaths : AppFetch(path)
    \/ \E path \in AadPaths : AadFetch(path)
    \/ \E path \in AdPaths : AdFetch(path)
    \/ \E path \in AiPaths : AiFetch(path)

UrlSpec == UrlInit /\ [][UrlNext]_vars

\* ------------------------------------------------------------------ unmounting
\* LifecycleSpec follows one App instance until after it is removed from the
\* tree.  React runs the cleanup of every effect at unmount and ignores the
\* state setters of an unmounted component, so after Unmount the handlers of
\* the responses still in flight run without changing the state.

lifeFrame == <<component, adVars, aiVars, aadVars, viewVars, scriptVars>>

\* Variant of Unmount: the cleanup of the polling effect does not run at
\* unmount.
UnmountLeavesTimer ==
    /\ component = "App"
    /\ mounted /\ ~unmounted
    /\ unmounted' = TRUE
    /\ UNCHANGED <<appVars, clock>>
    /\ UNCHANGED lifeFrame

\* The component is removed: the cleanup returned by the polling effect
\* (App.jsx 67) runs, clearInterval(interval).
Unmount ==
    /\ component = "App"
    /\ mounted /\ ~unmounted
    /\ unmounted' = TRUE
    /\ timers' = IF timers > 0 THEN timers - 1 ELSE 0
    /\ UNCHANGED <<funnelData, loading, error, lastUpdated, isRealTime,
                   connectionStatus, mounted, calls, nextId, completed, last, clock>>
    /\ UNCHANGED lifeFrame

\* A response of invocation i arrives after the unmount: fetchData runs to
\* its end, and its setters change nothing.
SettlesAfterUnmount(i) ==
    /\ component = "App"
    /\ unmounted
    /\ i \in DOMAIN calls
    /\ calls' = RemoveCall(i)
    /\ UNCHANGED <<funnelData, loading, error, lastUpdated, isRealTime,
                   connectionStatus, mounted, timers, nextId, completed, last, clock>>
    /\ UNCHANGED <<unmounted>>
    /\ UNCHANGED lifeFrame

LifecycleInit == Init /\ component = "App"

LifecycleNext ==
    \/ ~unmounted /\ Mount
    \/ ~unmounted /\ ToggleRealTime
    \/ ~unmounted /\ Tick
    \/ ~unmounted /\ RefreshData
    \/ ~unmounted /\ \E i \in 1..MaxFetches, h \in HealthResponses : HealthSettles(i, h)
    \/ ~unmounted /\ \E i \in 1..MaxFetches, f \in FunnelResponses : FunnelSettles(i, f)
    \/ Unmount
    \/ \E i \in 1..MaxFetches : SettlesAfterUnmount(i)

LifecycleSpec == LifecycleInit /\ [][LifecycleNext]_vars

\* ------------------------------------------------------------------ deploy-production.sh
\* The deployment script runs under `set -e` with `trap rollback ERR` set in
\* main and without errtrace.  bash then behaves as follows: a command that
\* fails inside a function called from main ends the script at once and the
\* trap does not run; the trap does not run for the condition of an `if` or
\* an `&&` list, nor for `exit`; it runs when a command of main's own body
\* fails, and the script exits with a non-zero status after it.

\* largest HEALTH_CHECK_TIMEOUT followed, in seconds
MaxTimeout == 12

deployFrame == <<appVars, adVars, aiVars, aadVars, clock, component, viewVars, lifeVars,
                 healthVars>>

\* The smallest number of intervals that cover t seconds.
CeilDiv(t, d) == (t + d - 1) \div d

\* A command failed under errexit: the script ends with a non-zero status.
Errexit ==
    /\ dpc' = "exited"
    /\ exitStatus' = "1"

\* check_prerequisites (lines 40-59): docker, docker-compose and
\* .env.production are present, or exit 1.
CheckPrerequisites(ok) ==
    /\ dpc = "check_prerequisites"
    /\ IF ok THEN dpc' = "create_backup" /\ UNCHANGED exitStatus
       ELSE Errexit
    /\ UNCHANGED <<HEALTH_CHECK_TIMEOUT, elapsed, probes, hcReturn, dbFile, backups,
                   services, database, notifications, rollbackRun, failedAt>>
    /\ UNCHANGED deployFrame

\* create_backup (lines 62-81): the directory is made first, the database is
\* copied when it exists, then the two configuration files are copied.
CreateBackup(r) ==
    /\ dpc = "create_backup"
    /\ backups' = IF r = "mkdir failed" THEN backups ELSE [dir |-> TRUE, db |-> dbFile]
    /\ IF r = "ok" THEN dpc' = "cleanup_old_backups" /\ UNCHANGED exitStatus
       ELSE Errexit
    /\ UNCHANGED <<HEALTH_CHECK_TIMEOUT, elapsed, probes, hcReturn, dbFile,
                   services, database, notifications, rollbackRun, failedAt>>
    /\ UNCHANGED deployFrame

\* cleanup_old_backups (lines 84-91): find ... || true removes only
\* directories older than the retention period.
CleanupOldBackups ==
    /\ dpc = "cleanup_old_backups"
    /\ dpc' = "pull_images"
    /\ UNCHANGED <<HEALTH_CHECK_TIMEOUT, elapsed, probes, hcReturn, dbFile, backups,
                   services, database, notifications, rollbackRun, failedAt, exitStatus>>
    /\ UNCHANGED deployFrame

\* pull_images (lines 94-100).
PullImages(ok) ==
    /\ dpc = "pull_images"
    /\ IF ok THEN dpc' = "deploy_services" /\ UNCHANGED exitStatus
       ELSE Errexit
    /\ UNCHANGED <<HEALTH_CHECK_TIMEOUT, elapsed, probes, hcReturn, dbFile, backups,
                   services, database, notifications, rollbackRun, failedAt>>
    /\ UNCHANGED deployFrame

\* deploy_services (lines 103-122): docker-compose down, then the services
\* are started one after the other.
DeployServices(r) ==
    /\ dpc = "deploy_services"
    /\ services' = CASE r = "down failed" -> services
                     [] r = "up failed" -> "down"
                     [] OTHER -> "new"
    /\ IF r = "ok" THEN dpc' = "run_migrations" /\ UNCHANGED exitStatus
       ELSE Errexit
    /\ UNCHANGED <<HEALTH_CHECK_TIMEOUT, elapsed, probes, hcReturn, dbFile, backups,
                   database, notifications, rollbackRun, failedAt>>
    /\ UNCHANGED deployFrame

\* run_migrations (lines 125-134): alembic upgrade head || true.
RunMigrations ==
    /\ dpc = "run_migrations"
    /\ dpc' = "health_check"
    /\ UNCHANGED <<HEALTH_CHECK_TIMEOUT, elapsed, probes, hcReturn, dbFile, backups,
                   services, database, notifications, rollbackRun, failedAt, exitStatus>>
    /\ UNCHANGED deployFrame

\* health_check up to its loop (lines 137-141).
HealthCheckStart ==
    /\ dpc = "health_check"
    /\ elapsed' = 0
    /\ dpc' = "while"
    /\ UNCHANGED <<HEALTH_CHECK_TIMEOUT, probes, hcReturn, dbFile, backups,
                   services, database, notifications, rollbackRun, failedAt, exitStatus>>
    /\ UNCHANGED deployFrame

\* Variant of HealthProbe: the loop tests elapsed -le timeout.
HealthProbeAtTimeout(ok) ==
    /\ dpc = "while"
    /\ elapsed <= HEALTH_CHECK_TIMEOUT
    /\ probes' = probes + 1
    /\ IF ok
       THEN /\ hcReturn' = "0"
            /\ dpc' = "run_smoke_tests"
            /\ UNCHANGED elapsed
       ELSE /\ elapsed' = elapsed + Interval
            /\ UNCHANGED <<hcReturn, dpc>>
    /\ UNCHANGED <<HEALTH_CHECK_TIMEOUT, dbFile, backups, services, database,
                   notifications, rollbackRun, failedAt, exitStatus>>
    /\ UNCHANGED deployFrame

\* One iteration of the loop of health_check (lines 143-152): the test
\* elapsed -lt timeout, the curl probe, and either return 0 or the sleep and
\* the increment.
HealthProbe(ok) ==
    /\ dpc = "while"
    /\ elapsed < HEALTH_CHECK_TIMEOUT
    /\ probes' = probes + 1
    /\ IF ok
       THEN /\ hcReturn' = "0"
            /\ dpc' = "run_smoke_tests"
            /\ UNCHANGED elapsed
       ELSE /\ elapsed' = elapsed + Interval
            /\ UNCHANGED <<hcReturn, dpc>>
    /\ UNCHANGED <<HEALTH_CHECK_TIMEOUT, dbFile, backups, services, database,
                   notifications, rollbackRun, failedAt, exitStatus>>
    /\ UNCHANGED deployFrame

\* The loop of health_check ends (lines 143, 154-155): return 1, which makes
\* the condition of main's `if` false.
HealthCheckFails ==
    /\ dpc = "while"
    /\ ~(elapsed < HEALTH_CHECK_TIMEOUT)
    /\ hcReturn' = "1"
    /\ failedAt' = "health_check"
    /\ dpc' = "else"
    /\ UNCHANGED <<HEALTH_CHECK_TIMEOUT, elapsed, probes, dbFile, backups,
                   services, database, notifications, rollbackRun, exitStatus>>
    /\ UNCHANGED deployFrame

\* run_smoke_tests (lines 159-186): the API, the frontend and Redis are
\* probed in turn; the first failure returns 1.
RunSmokeTests(api, frontend, redis) ==
    /\ dpc = "run_smoke_tests"
    /\ IF api /\ frontend /\ redis
       THEN dpc' = "setup_monitoring" /\ UNCHANGED failedAt
       ELSE dpc' = "else" /\ failedAt' = "run_smoke_tests"
    /\ UNCHANGED <<HEALTH_CHECK_TIMEOUT, elapsed, probes, hcReturn, dbFile, backups,
                   services, database, notifications, rollbackRun, exitStatus>>
    /\ UNCHANGED deployFrame

\* The else branch of main (lines 292-295): error "Deployment validation
\* failed"; exit 1.
ValidationFailed ==
    /\ dpc = "else"
    /\ dpc' = "exited"
    /\ exitStatus' = "1"
    /\ UNCHANGED <<HEALTH_CHECK_TIMEOUT, elapsed, probes, hcReturn, dbFile, backups,
                   services, database, notifications, rollbackRun, failedAt>>
    /\ UNCHANGED deployFrame

\* setup_monitoring (lines 189-210), then main's send_notification "SUCCESS"
\* (lines 276-277).
SetupMonitoring(ok) ==
    /\ dpc = "setup_monitoring"
    /\ IF ok
       THEN /\ dpc' = "summary"
            /\ notifications' = Append(notifications, "SUCCESS")
            /\ UNCHANGED exitStatus
       ELSE Errexit /\ UNCHANGED notifications
    /\ UNCHANGED <<HEALTH_CHECK_TIMEOUT, elapsed, probes, hcReturn, dbFile, backups,
                   services, database, rollbackRun, failedAt>>
    /\ UNCHANGED deployFrame

\* The deployment summary (lines 279-290): docker-compose ps is a command of
\* main's own body, so its failure runs the ERR trap.
Summary(ok) ==
    /\ dpc = "summary"
    /\ IF ok THEN dpc' = "exited" /\ exitStatus' = "0"
       ELSE dpc' = "rollback" /\ UNCHANGED exitStatus
    /\ UNCHANGED <<HEALTH_CHECK_TIMEOUT, elapsed, probes, hcReturn, dbFile, backups,
                   services, database, notifications, rollbackRun, failedAt>>
    /\ UNCHANGED deployFrame

\* rollback (lines 235-260), run by the ERR trap, and the exit that follows
\* it.  A docker-compose command that fails inside it ends the script there.
Rollback(downOk, upOk) ==
    /\ dpc = "rollback"
    /\ dpc' = "exited"
    /\ exitStatus' = "1"
    /\ IF ~downOk
       THEN /\ rollbackRun' = "aborted"
            /\ UNCHANGED <<services, database, notifications>>
       ELSE IF backups.dir
       THEN /\ database' = IF backups.db THEN "restored" ELSE database
            /\ IF upOk
               THEN /\ services' = "restored"
                    /\ notifications' = Append(notifications, "FAILED")
                    /\ rollbackRun' = "completed"
               ELSE /\ services' = "down"
                    /\ rollbackRun' = "aborted"
                    /\ UNCHANGED notifications
       ELSE /\ services' = "down"
            /\ notifications' = Append(notifications, "CRITICAL")
            /\ rollbackRun' = "completed"
            /\ UNCHANGED database
    /\ UNCHANGED <<HEALTH_CHECK_TIMEOUT, elapsed, probes, hcReturn, dbFile, backups,
                   failedAt>>
    /\ UNCHANGED deployFrame

\* The script is started: HEALTH_CHECK_TIMEOUT comes from the environment,
\* a database file and earlier backups may exist.
DeployInit ==
    /\ ComponentsInit
    /\ component = "App"
    /\ analysis = << >>
    /\ shown = NotRendered
    /\ env = Unset
    /\ requests = {}
    /\ dpc = "check_prerequisites"
    /\ HEALTH_CHECK_TIMEOUT \in 0..MaxTimeout
    /\ elapsed = 0
    /\ probes = 0
    /\ hcReturn = "none"
    /\ dbFile \in BOOLEAN
    /\ backups \in {NoBackup, [dir |-> TRUE, db |-> FALSE], [dir |-> TRUE, db |-> TRUE]}
    /\ services = "previous"
    /\ database = "live"
    /\ notifications = << >>
    /\ rollbackRun = "none"
    /\ failedAt = "none"
    /\ exitStatus = "running"
    /\ HealthIdle

DeployNext ==
    \/ \E ok \in BOOLEAN : CheckPrerequisites(ok)
    \/ \E r \in {"ok", "mkdir failed", "cp failed"} : CreateBackup(r)
    \/ CleanupOldBackups
    \/ \E ok \in BOOLEAN : PullImages(ok)
    \/ \E r \in {"ok", "down failed", "up failed"} : DeployServices(r)
    \/ RunMigrations
    \/ HealthCheckStart
    \/ \E ok \in BOOLEAN : HealthProbe(ok)
    \/ HealthCheckFails
    \/ \E api, frontend, redis \in BOOLEAN : RunSmokeTests(api, frontend, redis)
    \/ ValidationFailed
    \/ \E ok \in BOOLEAN : SetupMonitoring(ok)
    \/ \E ok \in BOOLEAN : Summary(ok)
    \/ \E downOk, upOk \in BOOLEAN : Rollback(downOk, upOk)

DeploySpec == DeployInit /\ [][DeployNext]_vars

\* Every command the script starts returns, so the script takes its next
\* step.
DeployFairSpec == DeploySpec /\ WF_vars(DeployNext)

\* ------------------------------------------------------------------ health-check script
\* The comprehensive health-check script (deploy-production.sh 302-421) runs
\* under `set -e`.  Every check is the simple command `check name command
\* critical`, and check returns 1 when its command fails: bash then ends the
\* script at once with status 1.

healthFrame == <<appVars, adVars, aiVars, aadVars, clock, component, viewVars, lifeVars,
                 deployVars>>

\* check (lines 327-345) called for check number hpc: the command is
\* evaluated; on failure OVERALL_HEALTH is set when the check is critical and
\* check returns 1.
Check(ok) ==
    /\ healthExit = "running"
    /\ hpc \in DOMAIN Checks
    /\ Checks[hpc].docker => dockerPresent
    /\ hpc = FirstAfterMetrics => RESPONSE_TIME # "not measured"
    /\ checkResults' = [checkResults EXCEPT ![hpc] = IF ok THEN "pass" ELSE "fail"]
    /\ IF ok
       THEN /\ hpc' = hpc + 1
            /\ UNCHANGED <<OVERALL_HEALTH, healthExit>>
       ELSE /\ OVERALL_HEALTH' = IF Checks[hpc].critical THEN 1 ELSE OVERALL_HEALTH
            /\ healthExit' = "1"
            /\ UNCHANGED hpc
    /\ UNCHANGED <<dockerPresent, RESPONSE_TIME, BACKEND_MEMORY>>
    /\ UNCHANGED healthFrame

\* Lines 374-380 when docker is not installed: the five container checks are
\* skipped.
SkipInfrastructure ==
    /\ healthExit = "running"
    /\ hpc \in DOMAIN Checks
    /\ Checks[hpc].docker /\ ~dockerPresent
    /\ hpc' = FirstAfterMetrics
    /\ UNCHANGED <<OVERALL_HEALTH, checkResults, dockerPresent, RESPONSE_TIME,
                   BACKEND_MEMORY, healthExit>>
    /\ UNCHANGED healthFrame

\* The performance metrics (lines 383-400): the response time is reported as
\* fast or slow, the memory usage is reported when docker gives one; neither
\* touches OVERALL_HEALTH.
PerformanceMetrics(time, memory) ==
    /\ healthExit = "running"
    /\ hpc = FirstAfterMetrics
    /\ RESPONSE_TIME = "not measured"
    /\ RESPONSE_TIME' = time
    /\ BACKEND_MEMORY' = IF dockerPresent THEN memory ELSE "not measured"
    /\ UNCHANGED <<hpc, OVERALL_HEALTH, checkResults, dockerPresent, healthExit>>
    /\ UNCHANGED healthFrame

\* The health summary (lines 411-421).
HealthSummary ==
    /\ healthExit = "running"
    /\ hpc = Len(Checks) + 1
    /\ healthExit' = IF OVERALL_HEALTH = 0 THEN "0" ELSE "1"
    /\ UNCHANGED <<hpc, OVERALL_HEALTH, checkResults, dockerPresent, RESPONSE_TIME,
                   BACKEND_MEMORY>>
    /\ UNCHANGED healthFrame

\* The script is started, on a host with or without docker.
HealthInit ==
    /\ ComponentsInit
    /\ component = "App"
    /\ analysis = << >>
    /\ shown = NotRendered
    /\ env = Unset
    /\ requests = {}
    /\ DeployIdle
    /\ hpc = 1
    /\ OVERALL_HEALTH = 0
    /\ checkResults = [i \in DOMAIN Checks |-> "not run"]
    /\ dockerPresent \in BOOLEAN
    /\ RESPONSE_TIME = "not measured"
    /\ BACKEND_MEMORY = "not measured"
    /\ healthExit = "running"

HealthNext ==
    \/ \E ok \in BOOLEAN : Check(ok)
    \/ SkipInfrastructure
    \/ \E time \in {"fast", "slow"}, memory \in {"reported", "0"} :
          PerformanceMetrics(time, memory)
    \/ HealthSummary

HealthSpec == HealthInit /\ [][HealthNext]_vars

\* ------------------------------------------------------------------ properties
\* The invocations that finish in the step.
Finishing == DOMAIN calls \ DOMAIN calls'

\* Invocation i finishes in the step, in the error outcome / successfully.
Fails(i) == i \in Finishing /\ last'.id = i /\ last'.outcome = "error"
Succeeds(i) == i \in Finishing /\ last'.id = i /\ last'.outcome = "success"

\* The payloads of the successful invocations among the first n finished.
RECURSIVE LastPayload(_)
LastPayload(n) ==
    IF n = 0 THEN Null
    ELSE IF completed[n].result \in JsonBodies THEN ParseJson(completed[n].result)
    ELSE LastPayload(n - 1)

\* C1 as stated: when a fetch ends in the error outcome, funnelData and
\* lastUpdated have the values they had when that fetch started.
C1_KeptSinceStart ==
    [][\A i \in DOMAIN calls :
          Fails(i) => /\ funnelData' = calls[i].startData
                      /\ lastUpdated' = calls[i].startUpdated]_vars

\* C1 (amended): a fetch that ends in the error outcome writes neither
\* funnelData nor lastUpdated.  Its failing step changes only error,
\* connectionStatus and, when showLoading, loading; every change of funnelData
\* or lastUpdated is the success of some fetch; so at its failure both have
\* the values they had when it started unless another fetch succeeded in
\* between (lastUpdated tells: every success stamps a new instant).
C1_FailureWritesNothing ==
    [][/\ \A i \in DOMAIN calls :
             Fails(i) =>
               /\ funnelData' = funnelData
               /\ lastUpdated' = lastUpdated
               /\ (loading' # loading => calls[i].showLoading)
               /\ isRealTime' = isRealTime /\ timers' = timers /\ mounted' = mounted
               /\ error' \in Msgs /\ connectionStatus' = "error"
               /\ (lastUpdated = calls[i].startUpdated
                     => funnelData' = calls[i].startData)
       /\ (funnelData' # funnelData \/ lastUpdated' # lastUpdated)
             => \E i \in DOMAIN calls : Succeeds(i)]_vars

\* A fetch failed while data fetched earlier was stored, and the data is kept.
C1_Witness ==
    /\ last.outcome = "error"
    /\ funnelData \in JsonBodies
    /\ lastUpdated > 0
    /\ error \in Msgs

\* C2: after a fetch failure, the data displayed is still the last
\* successfully fetched funnel data and the displayed connection-status
\* indicator shows its error state.
C2_StaleDataDisplayed ==
    [][\A i \in DOMAIN calls :
          (Fails(i) /\ LastPayload(Len(completed)) # Null) =>
               /\ DisplayedData' = LastPayload(Len(completed))
               /\ Indicator' = "Connection Error"]_vars

\* C3: results are applied in completion order, with no request-id guard:
\* the stored data is always the payload of the fetch that succeeded last,
\* whatever the order of dispatch.
C3_CompletionOrder == funnelData = LastPayload(Len(completed))

\* Two fetches were in flight together (the one dispatched earlier finished
\* after the one dispatched later, so it was in flight all the while), both
\* have finished, nothing is in flight, and the stored data is the payload
\* of the one dispatched earlier, not of the later one.
C3_Witness ==
    /\ calls = << >>
    /\ \E a, b \in DOMAIN completed :
          /\ a < b
          /\ b = Len(completed)
          /\ completed[a].id > completed[b].id
          /\ completed[a].result \in JsonBodies
          /\ completed[b].result \in JsonBodies
          /\ completed[a].result # completed[b].result
          /\ funnelData = ParseJson(completed[b].result)

Starts == nextId' > nextId

\* C5: while the timer of a component (App's and AnalyticsDashboard's
\* polling, AIAgentDashboard's auto-analysis) is live its tick can always
\* fire, whatever is in flight (up to the MaxFetches invocations of a
\* behaviour), and starting an invocation adds it to those in flight without
\* cancelling or changing any of them.
C5_TicksIndependent ==
    /\ []((timers > 0 /\ nextId <= MaxFetches) => ENABLED Tick)
    /\ []((adTimers > 0 /\ adNextId <= MaxFetches) => ENABLED AdTick)
    /\ []((aiTimers > 0 /\ aiNextId <= MaxFetches) => ENABLED AiTick)
    /\ [][Starts =>
            /\ DOMAIN calls' = DOMAIN calls \cup {nextId}
            /\ \A j \in DOMAIN calls : calls'[j] = calls[j]
            /\ calls'[nextId].pc = "health"
            /\ completed' = completed]_vars
    /\ [][adNextId' > adNextId =>
            adCalls' = adCalls (+) SetToBag({[pc |-> "health", met |-> NothingMet]})]_vars
    /\ [][aiNextId' > aiNextId =>
            aiRuns' = aiRuns (+) SetToBag({[pc |-> "post"]})]_vars

\* Two invocations started by the timer are in flight at once.
C5_Witness ==
    \E i, j \in DOMAIN calls :
        /\ i < j
        /\ calls[i].src = "timer"
        /\ calls[j].src = "timer"

\* C6: an invocation is started by the timer only while isRealTime is true
\* and the timer is live; once the mount effect has run, one that starts
\* while isRealTime is false comes from a refresh/retry button.
C6_NoTickAfterStop ==
    [][Starts =>
         /\ (calls'[nextId].src = "timer" => isRealTime /\ timers > 0)
         /\ ((~isRealTime /\ mounted) =>
                (calls'[nextId].src = "user" /\ RefreshButtons # {}))]_vars

\* Polling was on (a timer-started invocation is still in flight), is off
\* now, and a user-started invocation was dispatched after it was turned off
\* (no toggle is on screen while a user-started invocation is in flight).
C6_Witness ==
    /\ ~isRealTime
    /\ timers = 0
    /\ \E i, j \in DOMAIN calls :
          /\ i < j
          /\ calls[i].src = "timer"
          /\ calls[j].src = "user"

\* C7: when the fetch that finished last succeeded, funnelData is exactly the
\* payload it received, lastUpdated is the instant read at that moment, and
\* error is null.
C7_ReplacedWholesale ==
    last.outcome = "success" =>
        /\ funnelData = ParseJson(last.funnel.body)
        /\ lastUpdated = clock - 1
        /\ error = Null

\* A successful fetch replaced data with an analysis list by a payload
\* without one, after an error had been stored.
C7_Witness ==
    /\ last.outcome = "success"
    /\ Len(completed) >= 3
    /\ completed[Len(completed) - 2].result \in {"pA", "pB"}
    /\ completed[Len(completed) - 1].result = "error"
    /\ funnelData = "pErr"

\* The requests whose response the fetch that finished last received.
Received(e) ==
    (IF e.health.transport THEN {e.health} ELSE {}) \cup
    (IF e.funnel.transport THEN {e.funnel} ELSE {})

\* The fetch that finished last issued a request whose transport failed.
TransportFailed(e) ==
    \/ ~e.health.transport
    \/ (e.funnel # NoResponse /\ ~e.funnel.transport)

\* C8 as stated: a fetch ends in the error outcome whenever the transport
\* failed, or any response it received has a non-successful status, or a
\* body is not valid JSON.
C8_AnyBadResponseFails ==
    last.outcome # "none" =>
        ((\/ TransportFailed(last)
          \/ \E r \in Received(last) : ~r.ok
          \/ \E r \in Received(last) : r.body = "badjson")
            => last.outcome = "error")

\* C8 (amended): a fetch of App or of AnalyticsDashboard ends in the error
\* outcome whenever the transport of one of its requests failed, or the
\* funnel response has a non-successful status, or a body it parses (the
\* health body whatever its status, any other body when its status is OK) is
\* not valid JSON.  A non-successful status of the health response is not
\* tested, and one of the recommendations or events response is skipped.
C8_Outcome ==
    /\ last.outcome # "none" =>
        ((\/ TransportFailed(last)
          \/ (last.funnel.transport /\ ~last.funnel.ok)
          \/ (last.health.transport /\ last.health.body = "badjson")
          \/ (last.funnel.transport /\ last.funnel.ok /\ last.funnel.body = "badjson"))
            => last.outcome = "error")
    /\ adLast.outcome # "none" =>
        ((adLast.met.transportFailed \/ adLast.met.funnelNonOk \/ adLast.met.badBody)
            => adLast.outcome = "error")

\* A fetch ended in the error outcome because the funnel response, received
\* after a health response that was fine, has a non-successful status.
C8_Witness ==
    /\ last.outcome = "error"
    /\ last.health.transport /\ last.health.ok
    /\ last.funnel.transport /\ ~last.funnel.ok
    /\ error = MsgHttp

\* C9: the step in which a fetch finishes starts no invocation, and every
\* invocation is started by the mount effect (once), by a tick of the live
\* timer (polling on), or from a refresh/retry button of the view on screen.
C9_NoAutomaticRetry ==
    [][/\ (completed' # completed => ~Starts)
       /\ Starts =>
            /\ Finishing = {}
            /\ calls'[nextId].src \in {"mount", "timer", "user"}
            /\ (calls'[nextId].src = "mount" => ~mounted /\ mounted')
            /\ (calls'[nextId].src = "timer" => timers > 0 /\ isRealTime)
            /\ (calls'[nextId].src = "user" => RefreshButtons # {})]_vars

\* A fetch has failed, polling is off, and nothing is in flight although
\* another invocation could still be dispatched.
C9_Witness ==
    /\ last.outcome = "error"
    /\ error \in Msgs
    /\ ~isRealTime
    /\ calls = << >>
    /\ nextId <= MaxFetches

\* C10 as stated: in every reachable state the view offers an action that
\* starts a fetch, and once a fetch has failed (error is set) the error
\* message is shown together with a retry action.
C10_AlwaysInteractive ==
    /\ RefreshButtons # {}
    /\ (error # Null => (DisplayedError = error /\ "error retry" \in RefreshButtons))

\* C10 (amended): whenever loading is false the view offers a refresh/retry
\* action and activating it starts a fetch (up to the MaxFetches invocations
\* of a behaviour); while error is set and loading is false the view is the
\* error screen, showing the stored message and the retry button.
C10_InteractiveUnlessLoading ==
    ~loading =>
        /\ RefreshButtons # {}
        /\ (nextId <= MaxFetches => ENABLED RefreshData)
        /\ "sidebar refresh" \in RefreshButtons \/ "error retry" \in RefreshButtons
        /\ (error # Null =>
              /\ View = "error"
              /\ DisplayedError = error
              /\ RefreshButtons = {"error retry"})
        /\ (error = Null => "sidebar refresh" \in RefreshButtons)

\* After a failed fetch the error screen is on display with its message.
C10_Witness ==
    /\ last.outcome = "error"
    /\ ~loading
    /\ DisplayedError \in Msgs
    /\ RefreshButtons = {"error retry"}

\* ------------------------------------------------------- properties of views
\* the sum of the drop_off_rate values of the steps, in thousandths
RECURSIVE TotalDropOff(_)
TotalDropOff(data) ==
    IF data = << >> THEN 0 ELSE Head(data).drop_off_rate.num + TotalDropOff(Tail(data))

\* The pieces of s between the occurrences of sep.
RECURSIVE Split(_, _)
Split(s, sep) ==
    IF \A i \in 1..Len(s) : s[i] # sep THEN <<s>>
    ELSE LET k == CHOOSE i \in 1..Len(s) :
                      s[i] = sep /\ \A j \in 1..(i - 1) : s[j] # sep
         IN <<SubSeq(s, 1, k - 1)>> \o Split(SubSeq(s, k + 1, Len(s)), sep)

RECURSIVE ParseInt(_)
ParseInt(s) ==
    IF s = << >> THEN 0
    ELSE 10 * ParseInt(SubSeq(s, 1, Len(s) - 1))
         + (CHOOSE k \in 0..9 : Digit(k) = s[Len(s)])

\* The value, in thousandths, of a decimal numeral with at most three decimals.
ParseDecimal(s) ==
    LET parts == Split(s, ".")
    IN ParseInt(parts[1]) * 1000
       + (IF Len(parts) = 1 THEN 0
          ELSE (ParseInt(parts[2]) * 1000) \div Pow10(Len(parts[2])))

Abs(n) == IF n < 0 THEN -n ELSE n

\* The numeral s has its last digit at the place worth `unit` thousandths and
\* is as close as such a numeral can be to total / n thousandths.
NearestTo(s, total, n, unit) ==
    /\ ParseDecimal(s) % unit = 0
    /\ 2 * Abs(ParseDecimal(s) * n - total) <= unit * n

\* the spec's example: signup 10, verify_email 45, activate 5
Example ==
    <<StepResult(1, Pct(10)), StepResult(2, Pct(45)), StepResult(3, Pct(5))>>

\* C11: for a payload with N >= 1 steps, the average drop-off a view derives
\* is the arithmetic mean of the drop_off_rate values: the number
\* AnalyticsDashboard keeps is exactly sum / N, what AnalyticsDashboard and
\* PerformanceMetrics display is that mean to one decimal, the retention rate
\* of RecommendationsList is its complement to 100, and the example
\* (10, 45, 5) gives 20.0.
C11_AverageIsMean ==
    LET n == Len(analysis)
        total == TotalDropOff(analysis)
    IN /\ shown.view = "KeyMetrics" =>
            /\ shown.avgDropOff.num * n = total * shown.avgDropOff.den
            /\ NearestTo(shown.avgDropOffShown, total, n, 100)
            /\ analysis = Example => shown.avgDropOffShown = <<"2", "0", ".", "0">>
       /\ shown.view = "PerformanceMetrics" =>
            /\ NearestTo(shown.avgDropOff, total, n, 100)
            /\ analysis = Example => shown.avgDropOff = <<"2", "0", ".", "0">>
       /\ shown.view = "RecommendationsList" =>
            NearestTo(shown.retention, 100000 * n - total, n, 100)

\* PerformanceMetrics has rendered a payload of three steps whose mean is not
\* a whole number of tenths.
C11_Witness ==
    /\ shown.view = "PerformanceMetrics"
    /\ Len(analysis) = 3
    /\ TotalDropOff(analysis) % 300 # 0

\* the steps of the payload whose drop_off_rate is strictly greater than 30
Over30 == {i \in 1..Len(analysis) : analysis[i].drop_off_rate.num > 30000}

\* C12: every view classifies a step high-risk / critical if and only if its
\* drop_off_rate is strictly greater than 30 (drop-off table, funnel chart,
\* recommendations list, HTML export, App critical-step count, performance
\* bottlenecks), so no two views disagree on a step.
C12_HighRiskIffOver30 ==
    LET steps == 1..Len(analysis) IN
    /\ shown.view = "DropOffTable" =>
         \A i \in steps :
            /\ shown.rows[i].badge = "high-risk" <=> i \in Over30
            /\ shown.rows[i].level = "high" <=> i \in Over30
            /\ shown.rows[i].warning <=> i \in Over30
    /\ shown.view = "FunnelChart" =>
         \A i \in steps :
            /\ shown.rows[i].status = "high-risk" <=> i \in Over30
            /\ shown.rows[i].critical <=> i \in Over30
    /\ shown.view = "RecommendationsList" =>
         \A i \in steps :
            (\E k \in 1..Len(shown.recommendations) :
                /\ shown.recommendations[k].priority = "high"
                /\ shown.recommendations[k].step = analysis[i].step)
            <=> i \in Over30
    /\ shown.view = "report" =>
         /\ \A i \in steps : shown.rows[i].status = "status-critical" <=> i \in Over30
         /\ shown.criticalIssues = Cardinality(Over30)
    /\ shown.view = "Overview" => shown.criticalSteps = Cardinality(Over30)
    /\ shown.view = "PerformanceMetrics" => shown.bottlenecks = Cardinality(Over30)

\* The funnel chart has rendered a payload with a step at exactly 30 and a
\* step just above 30.
C12_Witness ==
    /\ shown.view = "FunnelChart"
    /\ \E i, j \in 1..Len(analysis) :
          /\ analysis[i].drop_off_rate = Pct(30)
          /\ shown.rows[i].status = "moderate"
          /\ analysis[j].drop_off_rate = Num(30005)
          /\ shown.rows[j].status = "high-risk"

\* the first step of the payload whose drop_off_rate is maximal
FirstMaximal ==
    CHOOSE i \in 1..Len(analysis) :
        /\ \A j \in 1..Len(analysis) :
              analysis[j].drop_off_rate.num <= analysis[i].drop_off_rate.num
        /\ \A j \in 1..(i - 1) :
              analysis[j].drop_off_rate.num < analysis[i].drop_off_rate.num

\* C13: every view that reports the biggest drop-off step (funnel chart,
\* performance metrics) reports the name of the first step whose
\* drop_off_rate is maximal, as the identifier or as the identifier with its
\* underscores shown as spaces; for the example it is verify_email.
C13_BiggestDropOffNamed ==
    LET name == analysis[FirstMaximal].step IN
    /\ shown.view = "FunnelChart" =>
         shown.biggest \in {name, ReplaceUnderscores(name)}
    /\ shown.view = "PerformanceMetrics" =>
         shown.biggestDropOff \in {name, ReplaceUnderscores(name)}

\* The exported CSV split on newlines, each line split on commas.
CsvCells == LET lines == Split(shown.content, "\n")
            IN [k \in 1..Len(lines) |-> Split(lines[k], ",")]

\* C14: the CSV export round-trips: after the header line there is one line
\* per step, in the order of the payload, whose Step column is the step's
\* identifier and whose Drop-off Rate and Conversion Rate columns are its
\* drop_off_rate and conversion_rate rounded to two decimals.
C14_CsvRoundTrip ==
    shown.view = "csv" =>
        /\ Len(CsvCells) = Len(analysis) + 1
        /\ \A i \in 1..Len(analysis) :
            LET cells == CsvCells[i + 1] IN
            /\ Len(cells) = 4
            /\ cells[1] = analysis[i].step
            /\ NearestTo(cells[3], analysis[i].drop_off_rate.num, 1, 10)
            /\ NearestTo(cells[4], analysis[i].conversion_rate.num, 1, 10)

\* ------------------------------------------------ properties, continued
\* C15: a response whose body carries an error field is a failed fetch: the
\* fetch that received it (App.fetchData, fetchAnalyticsData) ends in the
\* error outcome, and such a body is never stored as data.
C15_ErrorFieldIsFailure ==
    /\ funnelData # "pErr"
    /\ (last.funnel.transport /\ last.funnel.body = "pErr") => last.outcome = "error"
    /\ \A k \in AnalyticsKeys : analyticsData[k] # "errBody"
    /\ (aadLast.response.transport /\ aadLast.response.body = "errBody")
         => aadLast.outcome = "error"

\* C16: after an AI analysis run completes, each stored collection is a list,
\* and it is the empty list when the response body is a JSON object that
\* lacks the collection's field.
C16_CollectionsAreLists ==
    \A n \in Collections :
        /\ aiData[n] \in {"[]", "list"}
        /\ (aiLast.outcome = "success" /\ aiLast.gets[n] = "object") => aiData[n] = "[]"

\* C17: every request a dashboard component issues targets the configured
\* base URL: the environment setting when it is set, http://127.0.0.1:8000
\* otherwise.
C17_ConfiguredBase ==
    \A r \in requests :
        r.base = IF env \in {Unset, ""} THEN "http://127.0.0.1:8000" ELSE env

\* C18: a run of AnalyticsDashboard.fetchFunnelData that ends in the error
\* outcome leaves funnelData, recommendations, posthogEvents and lastUpdated
\* at the values they had before it started.  For the run the mount effect
\* dispatches, as long as no other run has been dispatched, these are the
\* initial values.
C18_FailedRunLeavesState ==
    (adNextId = 2 /\ adLast.outcome = "error") =>
        /\ adFunnelData = Null
        /\ recommendations = "[]"
        /\ posthogEvents = "[]"
        /\ adLastUpdated = 0

\* C19: when the analysis POST succeeded and a follow-up GET fails (transport
\* error or non-OK status), the run surfaces no error, the collection of the
\* failed request is set to its empty default whatever was stored before,
\* and the other collections are set from their own responses.
C19_FailedGetDefaults ==
    /\ [](aiLast.outcome = "success" =>
            /\ \A n \in Collections :
                  aiData[n] = CASE aiLast.gets[n] \in {"fail", "nonok", "badjson"} -> "[]"
                                [] aiLast.gets[n] \in {"wrapped", "bare"} -> "list"
                                [] OTHER -> "object"
            /\ aiLast.gets["collaboration"] \in {"fail", "nonok"}
                  => collaborationReport = "{}")
    /\ [][\A c \in BagToSet(aiRuns) :
            (c.pc = "gets" /\ aiRuns' = aiRuns (-) SetToBag({c})) => aiError' = aiError]_vars

\* A run has completed in which exactly one collection request failed: the
\* list stored before is gone, the other collections hold their lists, no
\* error is shown.
C19_Witness ==
    /\ aiLast.outcome = "success"
    /\ aiError = Null
    /\ \E n \in Collections :
          /\ aiLast.gets[n] \in {"fail", "nonok"}
          /\ aiLast.before
          /\ aiData[n] = "[]"
          /\ \A m \in Collections \ {n} :
                aiLast.gets[m] = "wrapped" /\ aiData[m] = "list"
          /\ aiLast.gets["collaboration"] = "wrapped"

\* C20: a polling fetch (started by the interval callback, showLoading false)
\* never changes loading, neither when it starts nor when it finishes, and
\* whatever its outcome.  loading changes only in a step that starts or
\* finishes a fetch with showLoading true: the start sets it to true, the
\* finish (success or error) sets it back to false.
C20_PollingLeavesLoading ==
    /\ [](\A i \in DOMAIN calls : calls[i].src = "timer" => ~calls[i].showLoading)
    /\ [][/\ Starts =>
              /\ nextId \in DOMAIN calls'
              /\ loading' = IF calls'[nextId].showLoading THEN TRUE ELSE loading
          /\ \A i \in Finishing :
              loading' = IF calls[i].showLoading THEN FALSE ELSE loading
          /\ loading' # loading =>
              \/ Starts /\ calls'[nextId].showLoading /\ calls'[nextId].src # "timer"
              \/ \E i \in Finishing : calls[i].showLoading /\ calls[i].src # "timer"]_vars

\* A polling fetch has finished while a fetch that shows the indicator is
\* still in flight, and loading is still true.
C20_Witness ==
    /\ component = "App"
    /\ last.src = "timer" /\ last.outcome \in {"success", "error"}
    /\ loading
    /\ \E i \in DOMAIN calls : calls[i].showLoading /\ i < last.id

\* C21: in App, whenever no fetch is in flight, error is non-null if and only
\* if connectionStatus is 'error', for every interleaving of fetches.
C21_ErrorIffStatusError ==
    (component = "App" /\ calls = << >>) =>
        (error # Null <=> connectionStatus = "error")

\* The half of C21 that the code keeps: with no fetch in flight, a displayed
\* error comes with connectionStatus 'error'.
C21_ErrorImpliesStatusError ==
    (component = "App" /\ calls = << >> /\ error # Null) => connectionStatus = "error"

\* The fetches in flight that were started with showLoading = true.
ShowLoadingInFlight == {i \in DOMAIN calls : calls[i].showLoading}

\* C22: in App, once the mount effect has started the initial fetch, loading
\* is true exactly when a fetch started with showLoading = true is in
\* flight, and at most one such fetch is in flight (refreshData is reachable
\* only from the buttons of the rendered view, and the loading screen has
\* none).
C22_LoadingIffShowLoadingInFlight ==
    (component = "App" /\ mounted) =>
        /\ loading <=> ShowLoadingInFlight # {}
        /\ Cardinality(ShowLoadingInFlight) <= 1

\* A refresh started by the user is the only fetch showing the indicator
\* while a polling fetch started before it is in flight as well.
C22_Witness ==
    /\ component = "App" /\ mounted /\ loading
    /\ \E i, j \in DOMAIN calls :
          /\ i < j
          /\ calls[i].src = "timer" /\ ~calls[i].showLoading
          /\ calls[j].src = "user" /\ calls[j].showLoading

\* C23: in App, after any sequence of real-time toggles at most one polling
\* timer is live, and while the component is in the tree a timer is live if
\* and only if isRealTime is true; after the unmount no timer is live.
C23_OneTimerIffRealTime ==
    component = "App" =>
        /\ timers \in {0, 1}
        /\ ~unmounted => (timers = 1 <=> isRealTime)
        /\ unmounted => timers = 0

\* The component was unmounted while polling was on and a polling fetch was
\* in flight, and no timer is left.
C23_Witness ==
    /\ component = "App" /\ unmounted
    /\ isRealTime /\ timers = 0
    /\ \E i \in DOMAIN calls : calls[i].src = "timer"

\* C24: in AIAgentDashboard, loading is true whenever at least one
\* triggerAIAnalysis run is in flight, so the "Run AI Analysis" button is
\* disabled whenever an analysis is in progress.
C24_LoadingWhileRunInFlight ==
    (component = "AIAgentDashboard" /\ aiRuns # EmptyBag) =>
        /\ aiLoading
        /\ "run" \notin AiRunButtons

\* What does hold: loading is true while the only run dispatched so far is
\* in flight.
C24_LoadingWhileSingleRun ==
    (component = "AIAgentDashboard" /\ aiRuns # EmptyBag /\ aiNextId = 2) => aiLoading

\* C25: in App, connectionStatus is 'checking' only before the first health
\* response or failure is processed (nothing has finished and every fetch in
\* flight still waits for its health response); whenever loading is false it
\* is 'connected', 'disconnected' or 'error'; and no step sets it back to
\* 'checking'.
C25_CheckingOnlyAtFirst ==
    /\ [](component = "App" =>
            /\ connectionStatus = "checking" =>
                  /\ completed = << >>
                  /\ \A i \in DOMAIN calls : calls[i].pc = "health"
            /\ ~loading => connectionStatus \in {"connected", "disconnected", "error"})
    /\ [][connectionStatus' = "checking" => connectionStatus = "checking"]_vars

\* The indicator has left 'checking', loading is false, and a later fetch is
\* in flight waiting for its health response.
C25_Witness ==
    /\ component = "App"
    /\ ~loading
    /\ connectionStatus \in {"connected", "disconnected", "error"}
    /\ \E i \in DOMAIN calls : calls[i].pc = "health" /\ i > 1

\* C26: in the deployment script, when the health check or the smoke tests
\* have failed, rollback has run by the time the script exits: services were
\* stopped, the database restored from the latest backup when it holds one,
\* services restarted, and a FAILED or CRITICAL notification sent.
C26_RollbackOnFailedValidation ==
    (exitStatus # "running" /\ failedAt \in {"health_check", "run_smoke_tests"}) =>
        /\ rollbackRun = "completed"
        /\ notifications # << >>
        /\ notifications[Len(notifications)] \in {"FAILED", "CRITICAL"}

\* What the script does instead: after a failed validation it exits with
\* status 1 and rollback has not run, the new services are left running and
\* nothing is notified.
C26_NoRollbackOnFailedValidation ==
    (exitStatus # "running" /\ failedAt \in {"health_check", "run_smoke_tests"}) =>
        /\ exitStatus = "1"
        /\ rollbackRun = "none"
        /\ services = "new" /\ database = "live"
        /\ notifications = << >>

Applicable == {i \in DOMAIN Checks : Checks[i].docker => dockerPresent}

\* C27: the health-check script runs every check to the end, and exits with
\* status 1 if and only if a check marked critical failed; a failed
\* non-critical check neither changes the exit status nor stops the checks
\* after it.
C27_AllChecksRunCriticalDecides ==
    healthExit \in {"0", "1"} =>
        /\ \A i \in Applicable : checkResults[i] # "not run"
        /\ healthExit = "1" <=>
              \E i \in Applicable : Checks[i].critical /\ checkResults[i] = "fail"

\* What the script does instead: it exits with status 1 at the first check
\* that fails, critical or not, and runs none of the checks after it; it
\* reaches the summary, and exits 0, only when every check passed.
C27_FirstFailureExits ==
    healthExit \in {"0", "1"} =>
        /\ healthExit = "1" <=> \E i \in Applicable : checkResults[i] = "fail"
        /\ \A i \in Applicable :
              checkResults[i] = "fail" =>
                  \A j \in Applicable : j > i => checkResults[j] = "not run"

====
